---------------------------- MODULE Spec2Model ----------------------------
(***************************************************************************)
(* Model of the TurisLima unified recommendation engine:                   *)
(*   backend/app/utils/recommender_engine.py  (EMA embedding, vector query)*)
(*   backend/app/utils/cold_start.py          (cold-start generator)       *)
(*   backend/app/utils/unified_recommender.py (phase selection, blending)  *)
(*   backend/app/routes/user_routes.py        (likes/saves/visits/interact)*)
(*                                                                         *)
(* Vectors are two-dimensional fixed-point pairs: the real component is    *)
(* the integer divided by VecScale.  Scores are fixed-point integers: the  *)
(* real score is the integer divided by ScoreScale.  Interaction weights   *)
(* are kept in tenths, the learning rate in hundredths.                    *)
(***************************************************************************)
EXTENDS Integers, Sequences, FiniteSets, TLC

(***************************************************************************)
(* Bounds of the model.                                                    *)
(***************************************************************************)
\* fixed-point resolution of a vector component
VecScale == 100
\* largest target_count handed to generate_unified_recommendations directly
MaxN == 3
\* number of requests the system handles in one behaviour
MaxRequests == 2

(***************************************************************************)
(* Sequence helpers.                                                       *)
(***************************************************************************)
Range(s) == {s[i] : i \in DOMAIN s}

\* s[:n] of Python for n >= 0
Take(s, n) == IF n >= Len(s) THEN s ELSE SubSeq(s, 1, n)

IsInjective(s) == \A i, j \in DOMAIN s : s[i] = s[j] => i = j

\* all orders of the elements of s (s has no duplicates)
Orderings(S) ==
  {q \in [1..Cardinality(S) -> S] : \A i, j \in 1..Cardinality(S) : q[i] = q[j] => i = j}

\* list(dict.fromkeys(s)): first occurrences, in order
RECURSIVE DedupFrom(_, _)
DedupFrom(s, seen) ==
  IF s = <<>> THEN <<>>
  ELSE IF Head(s) \in seen THEN DedupFrom(Tail(s), seen)
       ELSE <<Head(s)>> \o DedupFrom(Tail(s), seen \cup {Head(s)})

Dedup(s) == DedupFrom(s, {})

\* the subsequence of s whose elements satisfy membership in S
RECURSIVE Filter(_, _)
Filter(s, S) ==
  IF s = <<>> THEN <<>>
  ELSE IF Head(s) \in S THEN <<Head(s)>> \o Filter(Tail(s), S)
       ELSE Filter(Tail(s), S)

(***************************************************************************)
(* Fixed-point vectors.                                                    *)
(***************************************************************************)
NoVec == <<>>

Dot(a, b) == a[1] * b[1] + a[2] * b[2]

Abs(x) == IF x < 0 THEN 0 - x ELSE x

\* integer square root by bisection: the r with r*r <= n < (r+1)*(r+1)
RECURSIVE SqrtBetween(_, _, _)
SqrtBetween(n, lo, hi) ==
  IF lo >= hi THEN lo
  ELSE LET mid == (lo + hi + 1) \div 2
       IN IF mid * mid <= n THEN SqrtBetween(n, mid, hi)
                            ELSE SqrtBetween(n, lo, mid - 1)

\* np.linalg.norm of a fixed-point vector (same scale as its components)
Norm(v) == SqrtBetween(Dot(v, v), 0, Abs(v[1]) + Abs(v[2]))

\* a / b rounded to the nearest integer, b > 0
RoundDiv(a, b) == (2 * a + b) \div (2 * b)

\* v / norm, guarded as `if norm > 0` in the source
Normalize(v) ==
  LET norm == Norm(v)
  IN IF norm > 0
     THEN <<RoundDiv(v[1] * VecScale, norm), RoundDiv(v[2] * VecScale, norm)>>
     ELSE v

\* L2 norm 1 within the rounding of the fixed-point representation
HasUnitNorm(v) ==
  /\ v # NoVec
  /\ Abs(Dot(v, v) - VecScale * VecScale) <= 2 * VecScale

(***************************************************************************)
(* recommender_engine.py: interaction weights and the EMA update.          *)
(***************************************************************************)
\* INTERACTION_WEIGHTS, in tenths
INTERACTION_WEIGHTS ==
  [view |-> 1, click |-> 2, share |-> 3, save |-> 5, visit |-> 7, like |-> 8]

\* the default of INTERACTION_WEIGHTS.get(interaction_type, 0.1), in tenths
DEFAULT_WEIGHT == 1

\* LEARNING_RATE, in hundredths
LEARNING_RATE == 15

\* mutant: an unknown kind gets the weight of the strongest interaction
InteractionWeightDefaultMax(interaction_type) ==
  IF interaction_type \in DOMAIN INTERACTION_WEIGHTS
  THEN INTERACTION_WEIGHTS[interaction_type]
  ELSE 8

\* weight = INTERACTION_WEIGHTS.get(interaction_type, 0.1)
InteractionWeight(interaction_type) ==
  IF interaction_type \in DOMAIN INTERACTION_WEIGHTS
  THEN INTERACTION_WEIGHTS[interaction_type]
  ELSE DEFAULT_WEIGHT

\* (1 - alpha) * user_vec + alpha * weight * item_vec, times 200: the common
\* factor is dropped before the normalisation, which cancels it
EmaRaw(user_vec, item_vec, weight) ==
  [k \in 1..2 |->
     ((100 - LEARNING_RATE) * 10 * user_vec[k] + LEARNING_RATE * weight * item_vec[k]) \div 5]

\* mutant: the moving average is returned as computed, without the division by its norm
UpdateUserVectorUnnormalised(user_vec, item_vec, interaction_type) ==
  [k \in 1..2 |-> EmaRaw(user_vec, item_vec, InteractionWeight(interaction_type))[k] \div 200]

\* update_user_vector(user_vec, item_vec, interaction_type)
update_user_vector(user_vec, item_vec, interaction_type) ==
  Normalize(EmaRaw(user_vec, item_vec, InteractionWeight(interaction_type)))

(***************************************************************************)
(* The `combined` collection (places and events).  Places carry no vector  *)
(* in this deployment; events carry one.                                   *)
(***************************************************************************)
Events == {"e1", "e2"}
Places == {"p1"}
Items == Events \cup Places

\* natural (insertion) order of the collection, the order of an unsorted find
CatalogOrder == <<"p1", "e1", "e2">>

Catalog ==
  [i \in Items |->
     CASE i = "p1" -> [type |-> "place", category |-> "museo", tags |-> {},
                       title |-> {"museo"}, rating |-> 5, vector |-> NoVec]
       [] i = "e1" -> [type |-> "event", category |-> "Art & Culture", tags |-> {"arte"},
                       title |-> {"muestra"}, rating |-> 0, vector |-> <<VecScale, 0>>]
       [] i = "e2" -> [type |-> "event", category |-> "Gastronomía", tags |-> {"comida"},
                       title |-> {"feria"}, rating |-> 0, vector |-> <<0, VecScale>>]]

\* cursor.limit(k): Mongo's limit(0) is "no limit"
Limit(s, k) == IF k = 0 THEN s ELSE Take(s, k)

\* random.shuffle(s): every order of s
Shuffles(s) == Orderings(Range(s))

(***************************************************************************)
(* cold_start.py                                                           *)
(***************************************************************************)
PREFERENCE_MAPPINGS ==
  [p \in {"playas", "cultura", "museos", "gastronomía", "naturaleza", "aventura",
          "vida nocturna", "compras", "deportes"} |->
     CASE p = "playas" ->
            [place_categories |-> {"playa", "costa", "balneario"},
             event_categories |-> {"Deportes", "Outdoor", "Naturaleza"},
             tags |-> {"playa", "mar", "surf", "outdoor"}]
       [] p = "cultura" ->
            [place_categories |-> {"museo", "galería", "centro cultural", "teatro", "biblioteca"},
             event_categories |-> {"Art & Culture", "Música", "Teatro", "Exposiciones"},
             tags |-> {"cultura", "arte", "museo", "historia", "exposición"}]
       [] p = "museos" ->
            [place_categories |-> {"museo", "galería", "centro cultural"},
             event_categories |-> {"Art & Culture", "Exposiciones"},
             tags |-> {"museo", "arte", "historia", "exposición"}]
       [] p = "gastronomía" ->
            [place_categories |-> {"restaurante", "café", "bar", "mercado"},
             event_categories |-> {"Gastronomía", "Food & Drink"},
             tags |-> {"comida", "gastronomía", "chef", "cocina"}]
       [] p = "naturaleza" ->
            [place_categories |-> {"parque", "jardín", "reserva", "laguna"},
             event_categories |-> {"Outdoor", "Naturaleza", "Aventura"},
             tags |-> {"naturaleza", "outdoor", "verde", "eco"}]
       [] p = "aventura" ->
            [place_categories |-> {"parque", "zona recreativa"},
             event_categories |-> {"Deportes", "Aventura", "Outdoor"},
             tags |-> {"aventura", "deporte", "adrenalina"}]
       [] p = "vida nocturna" ->
            [place_categories |-> {"bar", "discoteca", "club"},
             event_categories |-> {"Vida Nocturna", "Música", "Fiestas"},
             tags |-> {"noche", "música", "fiesta", "bar"}]
       [] p = "compras" ->
            [place_categories |-> {"centro comercial", "mercado", "tienda"},
             event_categories |-> {"Ferias", "Shopping"},
             tags |-> {"compras", "shopping", "tienda"}]
       [] p = "deportes" ->
            [place_categories |-> {"estadio", "gimnasio", "complejo deportivo"},
             event_categories |-> {"Deportes", "Fitness"},
             tags |-> {"deporte", "fitness", "actividad"}]]

POPULAR_CATEGORIES ==
  [places |-> <<"restaurante", "museo", "parque", "café", "playa">>,
   events |-> <<"Art & Culture", "Música", "Gastronomía", "Deportes", "Outdoor">>]

\* the default preference set of initialize_user_recommendations
DEFAULT_PREFERENCES == <<"cultura", "gastronomía">>

\* places_query of get_related_items_for_preference
PlacesMatching(mapping) ==
  {i \in Places : \/ Catalog[i].category \in mapping.place_categories
                  \/ Catalog[i].title \cap mapping.tags # {}}

\* events_query of get_related_items_for_preference
EventsMatching(mapping) ==
  {i \in Events : \/ Catalog[i].category \in mapping.event_categories
                  \/ Catalog[i].tags \cap mapping.tags # {}
                  \/ Catalog[i].title \cap mapping.tags # {}}

\* get_related_items_for_preference(preference, combined, n_items): every list the
\* two shuffles can leave
get_related_items_for_preference(preference, n_items) ==
  IF preference \notin DOMAIN PREFERENCE_MAPPINGS THEN {<<>>}
  ELSE
    LET mapping == PREFERENCE_MAPPINGS[preference]
        n_places == n_items \div 2
        places == Limit(Filter(CatalogOrder, PlacesMatching(mapping)), n_places * 2)
        placeLists == IF mapping.place_categories # {}
                      THEN {Take(q, n_places) : q \in Shuffles(places)}
                      ELSE {<<>>}
        EventLists(n_events) ==
          IF mapping.event_categories # {} \/ mapping.tags # {}
          THEN {Take(q, n_events) :
                  q \in Shuffles(Limit(Filter(CatalogOrder, EventsMatching(mapping)),
                                       n_events * 2))}
          ELSE {<<>>}
    IN UNION {{pl \o ev : ev \in EventLists(n_items - Len(pl))} : pl \in placeLists}

\* stable sort of item ids by rating, descending
RECURSIVE InsertByRating(_, _)
InsertByRating(sorted, i) ==
  IF sorted = <<>> THEN <<i>>
  ELSE IF Catalog[Head(sorted)].rating >= Catalog[i].rating
       THEN <<Head(sorted)>> \o InsertByRating(Tail(sorted), i)
       ELSE <<i>> \o sorted

RECURSIVE SortByRating(_)
SortByRating(s) ==
  IF s = <<>> THEN <<>>
  ELSE InsertByRating(SortByRating(SubSeq(s, 1, Len(s) - 1)), s[Len(s)])

\* the places loop of get_diverse_items over POPULAR_CATEGORIES["places"][k..]
RECURSIVE DiversePlaces(_, _, _, _)
DiversePlaces(k, items, n_places, exclude) ==
  IF k > Len(POPULAR_CATEGORIES.places) \/ Len(items) >= n_places THEN items
  ELSE LET found == {i \in Places : Catalog[i].category = POPULAR_CATEGORIES.places[k]
                                    /\ i \notin exclude}
       IN DiversePlaces(k + 1,
                        items \o Take(SortByRating(Filter(CatalogOrder, found)), 2),
                        n_places, exclude)

\* the events loop of get_diverse_items over POPULAR_CATEGORIES["events"][k..]
RECURSIVE DiverseEvents(_, _, _, _)
DiverseEvents(k, items, n_total, exclude) ==
  IF k > Len(POPULAR_CATEGORIES.events) \/ Len(items) >= n_total THEN items
  ELSE LET found == {i \in Events : Catalog[i].category = POPULAR_CATEGORIES.events[k]
                                    /\ i \notin exclude}
       IN DiverseEvents(k + 1, items \o Take(Filter(CatalogOrder, found), 2),
                        n_total, exclude)

\* get_diverse_items(combined, n_items, exclude_ids): every list the shuffle can leave
get_diverse_items(n_items, exclude_ids) ==
  LET n_places == n_items \div 2
      n_events == n_items - n_places
      places == DiversePlaces(1, <<>>, n_places, exclude_ids)
      items == DiverseEvents(1, places, n_places + n_events, exclude_ids)
  IN {Take(q, n_items) : q \in Shuffles(items)}

\* the preference loop of generate_cold_start_recommendations: every sequence of
\* lists it can get, one call of get_related_items_for_preference per preference
RECURSIVE PreferenceRuns(_, _)
PreferenceRuns(prefs, items_per_preference) ==
  IF prefs = <<>> THEN {<<>>}
  ELSE {<<a>> \o b : a \in get_related_items_for_preference(Head(prefs), items_per_preference),
                     b \in PreferenceRuns(Tail(prefs), items_per_preference)}

\* all_recommendations.extend(items), list after list
RECURSIVE Extended(_)
Extended(lists) == IF lists = <<>> THEN <<>> ELSE Head(lists) \o Extended(Tail(lists))

\* every value of all_recommendations after the preference loop
PreferenceItems(prefs, items_per_preference) ==
  {Extended(found) : found \in PreferenceRuns(prefs, items_per_preference)}

\* mutant: the diversity step is asked for the 30% share whatever was found
DiverseShare(n_recommendations, all_recommendations) ==
  n_recommendations - (7 * n_recommendations) \div 10

\* n_diverse_items = n_recommendations - len(all_recommendations)
DiverseCount(n_recommendations, all_recommendations) ==
  n_recommendations - Len(all_recommendations)

\* mutant: step 3 shuffles without removing the duplicates
ColdStartFinishNoDedup(all_recommendations, n_recommendations) ==
  LET S == Range(all_recommendations)
  IN {Take(q, n_recommendations) :
        q \in {r \in [1..Len(all_recommendations) -> S] :
                 \A x \in S : Cardinality({i \in DOMAIN r : r[i] = x})
                            = Cardinality({i \in DOMAIN all_recommendations :
                                             all_recommendations[i] = x})}}

\* steps 3 and 4 of generate_cold_start_recommendations: dict.fromkeys, shuffle, [:n]
ColdStartFinish(all_recommendations, n_recommendations) ==
  {Take(q, n_recommendations) : q \in Shuffles(Dedup(all_recommendations))}

\* generate_cold_start_recommendations(user_preferences, combined, n_recommendations):
\* every outcome, with the preferences the preference step ran for and the number of
\* items asked of the diversity step
generate_cold_start_recommendations(user_preferences, n_recommendations) ==
  LET n_preference_items == (7 * n_recommendations) \div 10
      runs == IF user_preferences # <<>>
              THEN PreferenceRuns(user_preferences,
                                  n_preference_items \div Len(user_preferences))
              ELSE {<<>>}
  IN UNION {UNION {{[recommendations |-> r,
                     pref_calls |-> user_preferences,
                     found |-> found,
                     n_diverse_items |-> DiverseCount(n_recommendations, Extended(found))] :
                      r \in ColdStartFinish(Extended(found) \o d, n_recommendations)} :
                   d \in get_diverse_items(
                          DiverseCount(n_recommendations, Extended(found)),
                          Range(Extended(found)))} :
            found \in runs}

(***************************************************************************)
(* recommender_engine.py: the vector query.                                *)
(***************************************************************************)
\* cosine similarity as the index computes it, in the scale of VecScale
Cosine(a, b) ==
  IF Norm(a) = 0 \/ Norm(b) = 0 THEN 0
  ELSE (Dot(a, b) * VecScale) \div (Norm(a) * Norm(b))

\* stable insertion into a list of event ids ranked by similarity to vec, descending
RECURSIVE InsertBySimilarity(_, _, _)
InsertBySimilarity(ranked, i, vec) ==
  IF ranked = <<>> THEN <<i>>
  ELSE IF Cosine(vec, Catalog[Head(ranked)].vector) >= Cosine(vec, Catalog[i].vector)
       THEN <<Head(ranked)>> \o InsertBySimilarity(Tail(ranked), i, vec)
       ELSE <<i>> \o ranked

RECURSIVE RankBySimilarity(_, _)
RankBySimilarity(s, vec) ==
  IF s = <<>> THEN <<>>
  ELSE InsertBySimilarity(RankBySimilarity(SubSeq(s, 1, Len(s) - 1), vec), s[Len(s)], vec)

\* the $vectorSearch stage of get_top_similar_items: documents of type event that
\* hold a vector, nearest first, at most n
VectorSearch(user_embedding, n) ==
  Take(RankBySimilarity(
         Filter(CatalogOrder, {i \in Events : Catalog[i].vector # NoVec}), user_embedding),
       n)

\* the two ways get_top_similar_items ends: the pipeline answers, or it raises (the
\* backend is down or times out) and the handler returns []
SearchOutcomes(user_embedding, n) ==
  {[failed |-> FALSE, ids |-> VectorSearch(user_embedding, n)],
   [failed |-> TRUE, ids |-> <<>>]}

\* get_top_similar_items(user_embedding, n): the ranking, or [] when the search raises
get_top_similar_items(user_embedding, n) ==
  {o.ids : o \in SearchOutcomes(user_embedding, n)}

\* item_vec of update_user_recommendations: every vector step 2 can leave.  An item
\* without a vector gets a random unit vector when the caller says "place", and the
\* user's own vector otherwise
RandomUnitVectors == {<<VecScale, 0>>, <<0, VecScale>>, <<0 - VecScale, 0>>}

\* get_item_embedding(item_id, item_type): the `vector` of the document with that
\* _id, None (here NoVec) when there is no document or it holds no vector
get_item_embedding(item_id) ==
  IF item_id \in Items THEN Catalog[item_id].vector ELSE NoVec

ItemVectors(item_id, item_type, user_vec) ==
  IF get_item_embedding(item_id) # NoVec THEN {get_item_embedding(item_id)}
  ELSE IF item_type = "place" THEN RandomUnitVectors
       ELSE {user_vec}

\* mutant: the fallback query has no filter on the type
FallbackAnyType(n) == Limit(CatalogOrder, n)

\* the fallback of update_user_recommendations: combined.find({"type": "event"}).limit(n)
FallbackEvents(n) == Limit(Filter(CatalogOrder, Events), n)

\* recommended_ids of update_user_recommendations after steps 4 and the fallback
RecommendedIds(recommended_ids, n) ==
  IF recommended_ids = <<>> THEN FallbackEvents(n) ELSE recommended_ids

(***************************************************************************)
(* unified_recommender.py                                                  *)
(***************************************************************************)
\* self.cold_start_threshold
COLD_START_THRESHOLD == 5

\* self.hybrid_weights['content'] and ['collaborative'], in tenths
HYBRID_WEIGHT_CONTENT == 4
HYBRID_WEIGHT_COLLABORATIVE == 6

\* n_recommendations of every route's call
N_RECOMMENDATIONS == 20

\* fixed-point resolution of a score; 840 = lcm(1..8) keeps the position decay exact
ScoreScale == 840 * 25

\* the scores hybrid_recommendations hands back, in thousandths
CfScoreValues == {0, 500, 1000}

\* get_user_interaction_count on a user document
get_user_interaction_count(doc) == Len(doc.likes) + Len(doc.saves) + Len(doc.visits)

\* mutant: the comparison of is_cold_start_user is <= instead of <
IsColdStartInclusive(doc) == get_user_interaction_count(doc) <= COLD_START_THRESHOLD

\* is_cold_start_user
is_cold_start_user(doc) == get_user_interaction_count(doc) < COLD_START_THRESHOLD

\* a dictionary is a sequence of <<key, value>> pairs with distinct keys, in
\* insertion order
Keys(d) == [k \in DOMAIN d |-> d[k][1]]

HasKey(d, key) == \E k \in DOMAIN d : d[k][1] = key

Get(d, key, default) ==
  IF HasKey(d, key) THEN d[CHOOSE k \in DOMAIN d : d[k][1] = key][2] ELSE default

\* d[key] = value
Put(d, key, value) ==
  IF HasKey(d, key)
  THEN [k \in DOMAIN d |-> IF d[k][1] = key THEN <<key, value>> ELSE d[k]]
  ELSE Append(d, <<key, value>>)

\* content_scores of _get_content_based_recommendations:
\* (1.0 - i * 0.1 / len(recommended_ids)) * hybrid_weights['content'], i from 0
RECURSIVE ContentScoresFrom(_, _, _)
ContentScoresFrom(d, recommended_ids, i) ==
  IF i > Len(recommended_ids) THEN d
  ELSE ContentScoresFrom(
         Put(d, recommended_ids[i],
             ((ScoreScale - ((i - 1) * ScoreScale) \div (10 * Len(recommended_ids)))
              * HYBRID_WEIGHT_CONTENT) \div 10),
         recommended_ids, i + 1)

ContentScores(recommended_ids) == ContentScoresFrom(<<>>, recommended_ids, 1)

\* the results hybrid_recommendations of cf_aux can hand back: pairs <<id, score>>
\* with distinct ids, score descending, at most n of them
HybridResults(n) ==
  UNION {{r \in [1..k -> Items \X CfScoreValues] :
            /\ \A i, j \in 1..k : r[i][1] = r[j][1] => i = j
            /\ \A i \in 1..(k - 1) : r[i][2] >= r[i + 1][2]} :
         k \in 0..(IF n < Cardinality(Items) THEN n ELSE Cardinality(Items))}

MaxScore(cf_results) ==
  CHOOSE m \in {cf_results[k][2] : k \in DOMAIN cf_results} :
    \A k \in DOMAIN cf_results : cf_results[k][2] <= m

\* the loop of _get_collaborative_recommendations:
\* cf_scores[str(item_id)] = (score / max_score) * hybrid_weights['collaborative']
RECURSIVE CfScoresFrom(_, _, _, _)
CfScoresFrom(d, cf_results, max_score, k) ==
  IF k > Len(cf_results) THEN d
  ELSE CfScoresFrom(
         Put(d, cf_results[k][1],
             (cf_results[k][2] * ScoreScale * HYBRID_WEIGHT_COLLABORATIVE)
               \div (max_score * 10)),
         cf_results, max_score, k + 1)

\* _get_collaborative_recommendations on the result of hybrid_recommendations: the
\* division by a max_score of 0 raises, and the handler returns {}
CfScores(cf_results) ==
  IF cf_results = <<>> THEN <<>>
  ELSE IF MaxScore(cf_results) = 0 THEN <<>>
       ELSE CfScoresFrom(<<>>, cf_results, MaxScore(cf_results), 1)

\* combined_scores of _combine_recommendations after both loops
RECURSIVE AddScores(_, _, _)
AddScores(combined, scores, k) ==
  IF k > Len(scores) THEN combined
  ELSE AddScores(Put(combined, scores[k][1], Get(combined, scores[k][1], 0) + scores[k][2]),
                 scores, k + 1)

\* sorted(..., key=score, reverse=True): stable, equal scores keep their order
RECURSIVE InsertByScore(_, _)
InsertByScore(sorted, e) ==
  IF sorted = <<>> THEN <<e>>
  ELSE IF Head(sorted)[2] >= e[2]
       THEN <<Head(sorted)>> \o InsertByScore(Tail(sorted), e)
       ELSE <<e>> \o sorted

RECURSIVE SortByScore(_)
SortByScore(d) ==
  IF d = <<>> THEN <<>>
  ELSE InsertByScore(SortByScore(SubSeq(d, 1, Len(d) - 1)), d[Len(d)])

\* mutant: the sorted list is returned without the [:n_recommendations] slice
CombineNoSlice(content_scores, cf_scores, n_recommendations) ==
  Keys(SortByScore(AddScores(AddScores(<<>>, content_scores, 1), cf_scores, 1)))

\* mutant: a short list is topped up from the catalogue
CombineTopUp(content_scores, cf_scores, n_recommendations) ==
  Take(Dedup(Keys(SortByScore(AddScores(AddScores(<<>>, content_scores, 1), cf_scores, 1)))
             \o CatalogOrder),
       n_recommendations)

\* _combine_recommendations(content_scores, cf_scores, n_recommendations)
_combine_recommendations(content_scores, cf_scores, n_recommendations) ==
  Take(Keys(SortByScore(AddScores(AddScores(<<>>, content_scores, 1), cf_scores, 1))),
       n_recommendations)

(***************************************************************************)
(* cf_aux.py: the collaborative filter.  A log entry is {'id': ..., 'ts':   *)
(* ...}, written here as its id; every entry is of the moment of the call,  *)
(* so the decay factor exp(-lambda * age) is 1.  Similarities are dot       *)
(* products, in units of 1 / VecScale^2; strengths are in halves.           *)
(***************************************************************************)
LIKE_STRENGTH == 2
SAVE_STRENGTH == 4
VISIT_STRENGTH == 1

\* dot_similarity(a, b)
dot_similarity(a, b) == Dot(a, b)

\* the entries of a log with the strength of the log
Strengthened(log, strength) == [k \in DOMAIN log |-> <<log[k], strength>>]

\* the three logs of a document, each entry with its strength: likes, saves, visits
Entries(doc) ==
  Strengthened(doc.likes, LIKE_STRENGTH) \o Strengthened(doc.saves, SAVE_STRENGTH)
    \o Strengthened(doc.visits, VISIT_STRENGTH)

\* get_events_from_user(user_id): (event_id, weight) for every entry of the three logs
get_events_from_user(db, user_id) ==
  IF user_id \notin DOMAIN db THEN <<>> ELSE Entries(db[user_id])

\* get_user_seen_event_ids(user_id): the field `seen`
get_user_seen_event_ids(db, user_id) ==
  IF user_id \notin DOMAIN db THEN <<>> ELSE db[user_id].seen

\* vector_sum of add_items over entries that all carry a vector
RECURSIVE VectorSum(_)
VectorSum(entries) ==
  IF entries = <<>> THEN <<0, 0>>
  ELSE LET vec == get_item_embedding(Head(entries)[1])
           rest == VectorSum(Tail(entries))
       IN <<Head(entries)[2] * vec[1] + rest[1], Head(entries)[2] * vec[2] + rest[2]>>

\* the entries whose item holds a vector
RECURSIVE WithVector(_)
WithVector(entries) ==
  IF entries = <<>> THEN <<>>
  ELSE IF get_item_embedding(Head(entries)[1]) # NoVec
       THEN <<Head(entries)>> \o WithVector(Tail(entries))
       ELSE WithVector(Tail(entries))

\* mutant: a user without entries gets the zero vector instead of None
FullRecalcZeroVector(db, user_id) ==
  [raised |-> FALSE, nan |-> FALSE, vector |-> <<0, 0>>]

\* get_full_recalc_user_vector(user_id).  get_all_user_interactions raises ValueError
\* for an unknown user and KeyError (id_to_emb[...]) for an entry whose id has no
\* document; add_items turns the None vector of a document without one into NaN,
\* which spreads over vector_sum; no entries at all give None
get_full_recalc_user_vector(db, user_id) ==
  IF user_id \notin DOMAIN db
  THEN [raised |-> TRUE, nan |-> FALSE, vector |-> NoVec]
  ELSE LET entries == Entries(db[user_id])
       IN IF \E k \in DOMAIN entries : entries[k][1] \notin Items
          THEN [raised |-> TRUE, nan |-> FALSE, vector |-> NoVec]
          ELSE IF entries = <<>>
               THEN [raised |-> FALSE, nan |-> FALSE, vector |-> NoVec]
               ELSE IF WithVector(entries) # entries
                    THEN [raised |-> FALSE, nan |-> TRUE, vector |-> NoVec]
                    ELSE [raised |-> FALSE, nan |-> FALSE,
                          vector |-> Normalize(VectorSum(entries))]

\* calculate_user_vector(user_id): the stored `vector` when there is one, the
\* recomputation otherwise
calculate_user_vector(db, user_id) ==
  IF user_id \in DOMAIN db /\ db[user_id].vector # NoVec
  THEN [raised |-> FALSE, nan |-> FALSE, vector |-> db[user_id].vector]
  ELSE get_full_recalc_user_vector(db, user_id)

\* get_top_similar_users(vector): the documents of the users collection that hold a
\* `vector`, in the order the index returns them, each with its dot product
get_top_similar_users(db, vector) ==
  {[k \in DOMAIN order |-> <<order[k], dot_similarity(vector, db[order[k]].vector)>>] :
     order \in Orderings({u \in DOMAIN db : db[u].vector # NoVec})}

\* mutant: the threshold is not applied
AtLeastAll(similar_users, min_similarity) == similar_users

\* [(uid, sim) for uid, sim in similar_users if sim >= min_similarity]
RECURSIVE AtLeast(_, _)
AtLeast(similar_users, min_similarity) ==
  IF similar_users = <<>> THEN <<>>
  ELSE IF Head(similar_users)[2] >= min_similarity
       THEN <<Head(similar_users)>> \o AtLeast(Tail(similar_users), min_similarity)
       ELSE AtLeast(Tail(similar_users), min_similarity)

\* the inner loop of get_collaborative_recommendations over one neighbour's events
RECURSIVE AddUserEvents(_, _, _, _)
AddUserEvents(event_scores, user_events, similarity_score, excluded_event_ids) ==
  IF user_events = <<>> THEN event_scores
  ELSE LET event_id == Head(user_events)[1]
           score == similarity_score * Head(user_events)[2]
       IN AddUserEvents(
            IF event_id \in excluded_event_ids THEN event_scores
            ELSE Put(event_scores, event_id, Get(event_scores, event_id, 0) + score),
            Tail(user_events), similarity_score, excluded_event_ids)

\* the outer loop: event_scores after all the similar users
RECURSIVE EventScores(_, _, _, _)
EventScores(event_scores, db, similar_users, excluded_event_ids) ==
  IF similar_users = <<>> THEN event_scores
  ELSE EventScores(
         AddUserEvents(event_scores, get_events_from_user(db, Head(similar_users)[1]),
                       Head(similar_users)[2], excluded_event_ids),
         db, Tail(similar_users), excluded_event_ids)

\* mutant: the scores are returned in the order of first accumulation, unsorted
SortedEventsUnsorted(event_scores, n) == Take(event_scores, n)

\* sorted(event_scores.items(), key=score, reverse=True)[:n]
SortedEvents(event_scores, n) == Take(SortByScore(event_scores), n)

\* what a call of get_collaborative_recommendations ends with: it raises, or returns
CfRaised ==
  [raised |-> TRUE, no_vector |-> FALSE, similar_users |-> <<>>, excluded |-> {},
   recommendations |-> <<>>]

CfReturned(similar_users, excluded, recommendations) ==
  [raised |-> FALSE, no_vector |-> FALSE, similar_users |-> similar_users,
   excluded |-> excluded, recommendations |-> recommendations]

\* get_collaborative_recommendations(user_id, n, min_similarity): every outcome.  A
\* NaN vector goes to the vector search as it is: the search raises, or answers
\* with no user
get_collaborative_recommendations(db, user_id, n, min_similarity) ==
  LET calc == calculate_user_vector(db, user_id)
      excluded_event_ids == Range(get_user_seen_event_ids(db, user_id))
  IN IF calc.raised THEN {CfRaised}
     ELSE IF calc.nan THEN {CfRaised, CfReturned(<<>>, excluded_event_ids, <<>>)}
     ELSE IF calc.vector = NoVec
          THEN {[CfReturned(<<>>, {}, <<>>) EXCEPT !.no_vector = TRUE]}
          ELSE {CfReturned(
                  AtLeast(found, min_similarity), excluded_event_ids,
                  SortedEvents(EventScores(<<>>, db, AtLeast(found, min_similarity),
                                           excluded_event_ids), n)) :
                  found \in get_top_similar_users(db, calc.vector)}

\* the documents of the events index among the first `limit` the search returns
RECURSIVE Without(_, _)
Without(s, S) ==
  IF s = <<>> THEN <<>>
  ELSE IF Head(s) \in S THEN Without(Tail(s), S)
       ELSE <<Head(s)>> \o Without(Tail(s), S)

\* get_top_similar_events(vector, n, user_id): the first batch of the loop asks for
\* n * 2 documents, drops those of `seen` and keeps n; the later batches ask for
\* the same first documents again and add nothing
get_top_similar_events(db, vector, n, user_id) ==
  LET batch == Take(RankBySimilarity(
                      Filter(CatalogOrder, {i \in Items : Catalog[i].vector # NoVec}),
                      vector), n * 2)
      kept == Take(Without(batch, Range(get_user_seen_event_ids(db, user_id))), n)
  IN [k \in DOMAIN kept |-> <<kept[k], Cosine(vector, Catalog[kept[k]].vector)>>]

MinOf(recs) ==
  CHOOSE m \in {recs[k][2] : k \in DOMAIN recs} : \A k \in DOMAIN recs : recs[k][2] >= m

\* mutant: the scores are divided by their maximum only
MaxNormalised(recs) ==
  [k \in DOMAIN recs |->
     <<recs[k][1],
       IF MaxScore(recs) = 0 THEN 0 ELSE (recs[k][2] * 1000) \div MaxScore(recs)>>]

\* (score - min) / range in thousandths, range 1.0 when all the scores are equal
MinMaxNormalised(recs) ==
  [k \in DOMAIN recs |->
     <<recs[k][1],
       IF MaxScore(recs) = MinOf(recs) THEN 0
       ELSE ((recs[k][2] - MinOf(recs)) * 1000) \div (MaxScore(recs) - MinOf(recs))>>]

\* what a call of get_hybrid_recommendations_cf ends with, and the two score sets it
\* blended: content as get_top_similar_events gave it, cf_recs and content_recs after
\* the normalisation
CfHybridBlend(raised, collaborative, content, cf_recs, content_recs, results) ==
  [raised |-> raised, collaborative |-> collaborative, content |-> content,
   cf_recs |-> cf_recs, content_recs |-> content_recs, results |-> results]

CfHybridOutcome(raised, collaborative, results) ==
  CfHybridBlend(raised, collaborative, <<>>, <<>>, <<>>, results)

\* mutant: an id that is in one set only gets no score from the other set's weight
\* either: both sets are weighted with cf_weight
HybridScoreOneWeight(cf_recs, content_recs, event_id, cf_weight, content_weight) ==
  Get(cf_recs, event_id, 0) * cf_weight + Get(content_recs, event_id, 0) * cf_weight

\* hybrid_scores[event_id] = cf_recs.get(event_id, 0.0) * cf_weight
\*                           + content_recs.get(event_id, 0.0) * content_weight
HybridScore(cf_recs, content_recs, event_id, cf_weight, content_weight) ==
  Get(cf_recs, event_id, 0) * cf_weight + Get(content_recs, event_id, 0) * content_weight

\* get_hybrid_recommendations_cf(user_id, n, cf_weight, content_weight), weights in
\* tenths: every outcome.  hybrid_scores is filled in the iteration order of a set
get_hybrid_recommendations_cf(db, user_id, n, cf_weight, content_weight) ==
  UNION {
    IF collaborative.raised THEN {CfHybridOutcome(TRUE, collaborative, <<>>)}
    ELSE IF collaborative.no_vector THEN {CfHybridOutcome(FALSE, collaborative, <<>>)}
    ELSE IF calculate_user_vector(db, user_id).nan
         THEN {CfHybridOutcome(TRUE, collaborative, <<>>),
               CfHybridOutcome(FALSE, collaborative, <<>>)}
         ELSE LET user_vector == calculate_user_vector(db, user_id).vector
                  cf_recs == IF collaborative.recommendations = <<>> THEN <<>>
                             ELSE MinMaxNormalised(collaborative.recommendations)
                  content == get_top_similar_events(db, user_vector, n * 2, user_id)
                  content_recs == IF content = <<>> THEN <<>> ELSE MinMaxNormalised(content)
                  all_event_ids == Range(Keys(cf_recs)) \cup Range(Keys(content_recs))
              IN {CfHybridBlend(FALSE, collaborative, content, cf_recs, content_recs,
                    Take(SortByScore(
                           [k \in DOMAIN order |->
                              <<order[k], HybridScore(cf_recs, content_recs, order[k],
                                                      cf_weight, content_weight)>>]),
                         n)) :
                    order \in Orderings(all_event_ids)} :
    collaborative \in get_collaborative_recommendations(db, user_id, n * 2, 0)}

\* hybrid_recommendations: the wrapper unified_recommender calls
hybrid_recommendations(db, user_id, n, cf_weight, content_weight) ==
  get_hybrid_recommendations_cf(db, user_id, n, cf_weight, content_weight)

(***************************************************************************)
(* The users collection and the requests in flight.                        *)
(***************************************************************************)
Users == {"u1", "u2"}

\* ids no document carries: a well-formed user id and a well-formed item id
UnknownUsers == {"u9"}
UnknownItems == {"x9"}

\* item_type as the caller of update_user_recommendations names it
ItemTypes == {"place", "event"}
Procs == {"r1", "r2"}

\* the interaction kinds a caller sends; "tap" is not in INTERACTION_WEIGHTS
Kinds == {"like", "tap"}


\* the vectors np.random.randn(dim) * 0.01, normalised, can give a new user
InitialVectors == {<<VecScale, 0>>, <<0, VecScale>>}

VARIABLES
  users,    \* users collection: user id -> document
  pc,       \* request -> the step it is at
  req,      \* request -> its arguments and local variables
  nreq,     \* requests started so far
  gen       \* the last direct call of generate_unified_recommendations, as run

vars == <<users, pc, req, nreq, gen>>

\* the local variables of a request before it starts
\* the three interaction logs of a user document
Logs(doc) == [likes |-> doc.likes, saves |-> doc.saves, visits |-> doc.visits]

NoLogs == [likes |-> <<>>, saves |-> <<>>, visits |-> <<>>]

Blank ==
  [op |-> "none", user |-> "none", item |-> "none", item_type |-> "none",
   kind |-> "none", phase |-> "none", emb0 |-> NoVec, recs0 |-> <<>>,
   search |-> "none", n |-> 0, logs0 |-> NoLogs,
   user_vec |-> NoVec, item_vec |-> NoVec, weight |-> 0, new_user_vec |-> NoVec,
   recommendations |-> <<>>, result |-> "none"]

RouteOps == {"likes", "saves", "visits"}

\* the steps at which a request has ended
Ended == {"idle", "done", "abandoned"}

\* {"$addToSet": {field: value}}
AddToSet(array, value) == IF value \in Range(array) THEN array ELSE Append(array, value)

\* mutant: the update has no {"_id": ...} filter and sets the field of every document
SetEmbeddingOfAll(db, user_id, vec) == [u \in Users |-> [db[u] EXCEPT !.embedding = vec]]

\* users_collection.update_one({"_id": user_id}, {"$set": {"embedding": vec}})
SetEmbedding(db, user_id, vec) == [db EXCEPT ![user_id].embedding = vec]

\* mutant: the new ids are pushed onto the stored list instead of replacing it
PushRecommendations(db, user_id, ids) ==
  [db EXCEPT ![user_id].recommendations = @ \o ids]

\* users_collection.update_one({"_id": user_id}, {"$set": {"recommendations": ids}})
SetRecommendations(db, user_id, ids) == [db EXCEPT ![user_id].recommendations = ids]

\* the first update_one of likes / saves / visits
LogInteraction(db, op, user_id, combined_id) ==
  CASE op = "likes" -> [db EXCEPT ![user_id].likes = AddToSet(@, combined_id)]
    [] op = "saves" -> [db EXCEPT ![user_id].saves = AddToSet(@, combined_id)]
    [] op = "visits" -> [db EXCEPT ![user_id].visits = AddToSet(@, combined_id)]

\* {"$pull": {field: value}}: every entry equal to value goes, the rest keep their order
Pull(array, value) == SelectSeq(array, LAMBDA x : x # value)

\* mutant: the entry is pulled from the three logs
RemoveFromEveryLog(db, op, user_id, combined_id) ==
  [db EXCEPT ![user_id].likes = Pull(@, combined_id),
             ![user_id].saves = Pull(@, combined_id),
             ![user_id].visits = Pull(@, combined_id)]

\* the update_one of unlikes / unsave / unvisit
RemoveInteraction(db, op, user_id, combined_id) ==
  CASE op = "unlikes" -> [db EXCEPT ![user_id].likes = Pull(@, combined_id)]
    [] op = "unsave" -> [db EXCEPT ![user_id].saves = Pull(@, combined_id)]
    [] op = "unvisits" -> [db EXCEPT ![user_id].visits = Pull(@, combined_id)]

\* no other request is running or has its result still pending
Quiet(p) == \A q \in Procs \ {p} : pc[q] = "idle"

(***************************************************************************)
(* Initial states.                                                         *)
(***************************************************************************)
NewUser(preferences) ==
  [likes |-> <<>>, saves |-> <<>>, visits |-> <<>>,
   preferences |-> preferences, embedding |-> NoVec, vector |-> NoVec,
   total_weight |-> 0, recommendations |-> <<>>, interactions |-> <<>>, seen |-> <<>>]

NoCall ==
  [user |-> "none", n |-> 0, count |-> 0, phase |-> "none", calls |-> {},
   pref_calls |-> <<>>, found |-> <<>>, n_diverse_items |-> 0, content_scores |-> <<>>,
   cf_scores |-> <<>>, recommendations |-> <<>>]

\* both users are one interaction short of the hybrid phase; u1 has preferences, an
\* embedding and a stored list, u2 has none of them
Init ==
  /\ users = [u \in Users |->
                IF u = "u1"
                THEN [NewUser(<<"cultura">>) EXCEPT
                        !.likes = <<"e1", "p1">>, !.saves = <<"e1">>, !.visits = <<"p1">>,
                        !.embedding = <<VecScale, 0>>, !.recommendations = <<"p1">>]
                ELSE [NewUser(<<>>) EXCEPT
                        !.likes = <<"e1", "e2">>, !.saves = <<"e1">>, !.visits = <<"e1">>]]
  /\ pc = [p \in Procs |-> "idle"]
  /\ req = [p \in Procs |-> Blank]
  /\ nreq = 0
  /\ gen = NoCall

(***************************************************************************)
(* user_routes.py: likes, saves, visits.                                   *)
(***************************************************************************)
\* the first update_one of the route: the interaction is logged
RouteLog(p, op, u, i) ==
  /\ pc[p] = "idle"
  /\ nreq < MaxRequests
  /\ users' = LogInteraction(users, op, u, i)
  /\ req' = [req EXCEPT ![p] = [Blank EXCEPT !.op = op, !.user = u, !.item = i,
                                             !.emb0 = users[u].embedding,
                                             !.recs0 = users[u].recommendations,
                                             !.logs0 = Logs(users[u])]]
  /\ pc' = [pc EXCEPT ![p] = "count"]
  /\ nreq' = nreq + 1
  /\ UNCHANGED gen

\* generate_unified_recommendations: is_cold_start_user reads the three logs
Count(p) ==
  /\ pc[p] = "count"
  /\ LET doc == users[req[p].user]
     IN /\ req' = [req EXCEPT ![p].phase = IF is_cold_start_user(doc)
                                           THEN "cold_start" ELSE "hybrid"]
        /\ pc' = [pc EXCEPT ![p] = IF is_cold_start_user(doc) THEN "cold" ELSE "uvec"]
  /\ UNCHANGED <<users, nreq, gen>>

\* _get_cold_start_recommendations: the stored preferences go to the generator as
\* they are
ColdStart(p) ==
  /\ pc[p] = "cold"
  /\ \E out \in generate_cold_start_recommendations(users[req[p].user].preferences,
                                                   N_RECOMMENDATIONS) :
       req' = [req EXCEPT ![p].recommendations = out.recommendations]
  /\ pc' = [pc EXCEPT ![p] = "generated"]
  /\ UNCHANGED <<users, nreq, gen>>

\* get_user_vector, called by _get_content_based_recommendations: find_one
ReadVector(p) ==
  /\ pc[p] = "uvec"
  /\ LET embedding == users[req[p].user].embedding
     IN /\ req' = [req EXCEPT ![p].user_vec = embedding]
        /\ pc' = [pc EXCEPT ![p] = IF embedding # NoVec THEN "search" ELSE "uinit"]
  /\ UNCHANGED <<users, nreq, gen>>

\* initialize_user_vector: a random unit vector is stored and returned
InitVector(p) ==
  /\ pc[p] = "uinit"
  /\ \E vec \in InitialVectors :
       /\ users' = SetEmbedding(users, req[p].user, vec)
       /\ req' = [req EXCEPT ![p].user_vec = vec]
  /\ pc' = [pc EXCEPT ![p] = "search"]
  /\ UNCHANGED <<nreq, gen>>

\* _get_collaborative_recommendations(n): every dictionary it can return for a user
\* whose document is doc.  Without a stored `vector`, calculate_user_vector recomputes
\* from the logs: on log entries as the routes write them (plain ids)
\* get_all_user_interactions raises and the handler returns {}; on empty logs there is
\* no vector and the result is empty.  With a stored `vector` the result depends on
\* the other users and the vector index: any well-formed result, or a raise.
CollaborativeOutcomes(doc, n) ==
  IF doc.vector = NoVec
  THEN {<<>>}
  ELSE {CfScores(r) : r \in HybridResults(n)} \cup {<<>>}

\* the blend of _get_hybrid_recommendations for a user vector: every list it can
\* give.  get_top_similar_items(n * 2) and the scores by position;
\* _get_collaborative_recommendations(n * 2); then _combine_recommendations
HybridOutcomes(user_vec, doc, n) ==
  {[search_failed |-> o.failed,
    content_scores |-> ContentScores(o.ids),
    cf_scores |-> cf_scores,
    recommendations |-> _combine_recommendations(ContentScores(o.ids), cf_scores, n)] :
     o \in SearchOutcomes(user_vec, n * 2),
     cf_scores \in CollaborativeOutcomes(doc, n * 2)}

\* _get_hybrid_recommendations after get_user_vector
Hybrid(p) ==
  /\ pc[p] = "search"
  /\ \E out \in {[search_failed |-> o.search_failed, recommendations |-> o.recommendations] :
                    o \in HybridOutcomes(req[p].user_vec, users[req[p].user],
                                         N_RECOMMENDATIONS)} :
       req' = [req EXCEPT ![p].recommendations = out.recommendations,
                          ![p].search = IF out.search_failed THEN "failed" ELSE "ok"]
  /\ pc' = [pc EXCEPT ![p] = "generated"]
  /\ UNCHANGED <<users, nreq, gen>>

\* the route stores new_recommendations and returns; the read of the phase for the
\* response body changes nothing
Store(p) ==
  /\ pc[p] = "generated"
  /\ users' = SetRecommendations(users, req[p].user, req[p].recommendations)
  /\ req' = [req EXCEPT ![p].result = "updated"]
  /\ pc' = [pc EXCEPT ![p] = "done"]
  /\ UNCHANGED <<nreq, gen>>

(***************************************************************************)
(* recommender_engine.py: update_user_recommendations.                     *)
(***************************************************************************)
\* the call, and step 1: get_user_vector's find_one
UpdateReadN(p, u, kind, i, item_type, n_recommendations) ==
  /\ pc[p] = "idle"
  /\ nreq < MaxRequests
  /\ req' = [req EXCEPT ![p] = [Blank EXCEPT !.op = "update", !.user = u, !.item = i,
                                             !.item_type = item_type, !.kind = kind,
                                             !.n = n_recommendations,
                                             !.emb0 = users[u].embedding,
                                             !.recs0 = users[u].recommendations,
                                             !.user_vec = users[u].embedding]]
  /\ pc' = [pc EXCEPT ![p] = IF users[u].embedding # NoVec THEN "u_save" ELSE "u_init"]
  /\ nreq' = nreq + 1
  /\ UNCHANGED <<users, gen>>

\* the call with n_recommendations left at its default
UpdateRead(p, u, kind, i, item_type) ==
  UpdateReadN(p, u, kind, i, item_type, N_RECOMMENDATIONS)

\* step 1, the user has no embedding: initialize_user_vector stores a random one
UpdateInit(p) ==
  /\ pc[p] = "u_init"
  /\ \E vec \in InitialVectors :
       /\ users' = SetEmbedding(users, req[p].user, vec)
       /\ req' = [req EXCEPT ![p].user_vec = vec]
  /\ pc' = [pc EXCEPT ![p] = "u_save"]
  /\ UNCHANGED <<nreq, gen>>

\* mutant: save_user_vector is handed the vector that was read
SavedVectorOld(user_vec, new_user_vec) == user_vec

\* the vector save_user_vector is handed in step 5
SavedVector(user_vec, new_user_vec) == new_user_vec

\* steps 2 to 4 on the vector read in step 1, then save_user_vector, whose write goes
\* through (saved) or raises inside save_user_vector, which returns False; the caller
\* does not look at the value returned
UpdateSaveStep(p, saved) ==
  /\ pc[p] = "u_save"
  /\ \E item_vec \in ItemVectors(req[p].item, req[p].item_type, req[p].user_vec) :
       LET new_user_vec == update_user_vector(req[p].user_vec, item_vec, req[p].kind)
       IN \E o \in SearchOutcomes(new_user_vec, req[p].n) :
            /\ req' = [req EXCEPT ![p].item_vec = item_vec,
                                  ![p].weight = InteractionWeight(req[p].kind),
                                  ![p].new_user_vec = new_user_vec,
                                  ![p].search = IF o.failed THEN "failed"
                                                ELSE IF o.ids = <<>> THEN "empty"
                                                ELSE "ok",
                                  ![p].recommendations = RecommendedIds(o.ids, req[p].n)]
            /\ users' = IF saved
                        THEN SetEmbedding(users, req[p].user,
                                          SavedVector(req[p].user_vec, new_user_vec))
                        ELSE users
  /\ pc' = [pc EXCEPT ![p] = "u_recs"]
  /\ UNCHANGED <<nreq, gen>>

UpdateSave(p) == UpdateSaveStep(p, TRUE)

\* the write of save_user_vector fails
UpdateSaveLost(p) == UpdateSaveStep(p, FALSE)

\* step 5, second write: the recommendations; the call returns success
UpdateRecs(p) ==
  /\ pc[p] = "u_recs"
  /\ users' = SetRecommendations(users, req[p].user, req[p].recommendations)
  /\ req' = [req EXCEPT ![p].result = "success"]
  /\ pc' = [pc EXCEPT ![p] = "done"]
  /\ UNCHANGED <<nreq, gen>>

(***************************************************************************)
(* Requests that end otherwise: unknown ids and failures of the backend.   *)
(***************************************************************************)
\* the interact route: the first update_one adds {id, type} to `interactions`
InteractLog(p, u, i, kind) ==
  /\ pc[p] = "idle"
  /\ nreq < MaxRequests
  /\ users' = [users EXCEPT ![u].interactions = AddToSet(@, <<i, kind>>)]
  /\ req' = [req EXCEPT ![p] = [Blank EXCEPT !.op = "interact", !.user = u, !.item = i,
                                             !.kind = kind,
                                             !.emb0 = users[u].embedding,
                                             !.recs0 = users[u].recommendations]]
  /\ pc' = [pc EXCEPT ![p] = "count"]
  /\ nreq' = nreq + 1
  /\ UNCHANGED gen

\* a route called for a user id no document carries: matched_count is 0 and the
\* route raises 404
RouteNotFound(p, op, u, i) ==
  /\ pc[p] = "idle"
  /\ nreq < MaxRequests
  /\ u \in UnknownUsers
  /\ req' = [req EXCEPT ![p] = [Blank EXCEPT !.op = op, !.user = u, !.item = i,
                                             !.result = "not_found"]]
  /\ pc' = [pc EXCEPT ![p] = "done"]
  /\ nreq' = nreq + 1
  /\ UNCHANGED <<users, gen>>

\* mutant: the except clause of the route resets the stored list
ExceptHandlerClears(db, user_id) == SetRecommendations(db, user_id, <<>>)

\* what the except clause of a route writes: nothing (it prints and returns)
ExceptHandler(db, user_id) == db

\* something inside the try block of a route raises (a find, the connection of the
\* cold-start generator, the update_one that stores the list): the except clause
\* answers "recomendaciones no actualizadas"
RouteFail(p) ==
  /\ pc[p] \in {"count", "cold", "uvec", "uinit", "search", "generated"}
  /\ users' = ExceptHandler(users, req[p].user)
  /\ req' = [req EXCEPT ![p].result = "not_updated"]
  /\ pc' = [pc EXCEPT ![p] = "done"]
  /\ UNCHANGED <<nreq, gen>>

\* the list is stored, then the read of the phase for the response body raises: the
\* except clause gives the same answer as for a failed generation
StoreThenFail(p) ==
  /\ pc[p] = "generated"
  /\ users' = ExceptHandler(SetRecommendations(users, req[p].user, req[p].recommendations),
                            req[p].user)
  /\ req' = [req EXCEPT ![p].result = "not_updated_after_store"]
  /\ pc' = [pc EXCEPT ![p] = "done"]
  /\ UNCHANGED <<nreq, gen>>

\* something inside the try block of update_user_recommendations raises (the write
\* of initialize_user_vector, the fallback find, the update_one of the list): the
\* except clause returns {"success": False, ...}
UpdateFail(p) ==
  /\ pc[p] \in {"u_init", "u_save", "u_recs"}
  /\ req' = [req EXCEPT ![p].result = "failure"]
  /\ pc' = [pc EXCEPT ![p] = "done"]
  /\ UNCHANGED <<users, nreq, gen>>

(***************************************************************************)
(* The environment: a caller gives up; the finished requests are forgotten. *)
(***************************************************************************)
\* the caller abandons the request between two of its steps
Abandon(p) ==
  /\ pc[p] \notin Ended
  /\ pc' = [pc EXCEPT ![p] = "abandoned"]
  /\ req' = [req EXCEPT ![p] = [Blank EXCEPT !.op = req[p].op, !.user = req[p].user,
                                             !.result = "abandoned"]]
  /\ UNCHANGED <<users, nreq, gen>>

\* every request has ended: their local variables go away
(***************************************************************************)
(* user_routes.py: unlikes, unsave, unvisit, and the initialisation of the *)
(* recommendations of a new user.                                          *)
(***************************************************************************)
UndoOps == {"unlikes", "unsave", "unvisits"}

\* the route that removes what the route op adds
UndoOf(op) ==
  CASE op = "likes" -> "unlikes" [] op = "saves" -> "unsave" [] op = "visits" -> "unvisits"

\* the log a route writes
LogOf(op) ==
  CASE op \in {"likes", "unlikes"} -> "likes"
    [] op \in {"saves", "unsave"} -> "saves"
    [] op \in {"visits", "unvisits"} -> "visits"

\* unlikes / unsave / unvisit: one update_one with $pull, 404 when no document matched,
\* the message otherwise; no recommendation is generated
RouteUnlog(p, op, u, i) ==
  /\ pc[p] = "idle"
  /\ nreq < MaxRequests
  /\ IF u \in Users
     THEN /\ users' = RemoveInteraction(users, op, u, i)
          /\ req' = [req EXCEPT ![p] = [Blank EXCEPT !.op = op, !.user = u, !.item = i,
                                                     !.emb0 = users[u].embedding,
                                                     !.recs0 = users[u].recommendations,
                                                     !.logs0 = Logs(users[u]),
                                                     !.result = "removed"]]
     ELSE /\ users' = users
          /\ req' = [req EXCEPT ![p] = [Blank EXCEPT !.op = op, !.user = u, !.item = i,
                                                     !.result = "not_found"]]
  /\ pc' = [pc EXCEPT ![p] = "done"]
  /\ nreq' = nreq + 1
  /\ UNCHANGED gen

\* mutant: the stored list is never taken as present
HasRecommendationsNever(doc) == FALSE

\* existing_recommendations and len(existing_recommendations) > 0
HasRecommendations(doc) == doc.recommendations # <<>>

\* initialize_user_recommendations: find_one; an unknown user and a user with a stored
\* list are answered at once
InitializeRead(p, u) ==
  /\ pc[p] = "idle"
  /\ nreq < MaxRequests
  /\ req' = [req EXCEPT ![p] =
              IF u \notin Users
              THEN [Blank EXCEPT !.op = "initialize", !.user = u, !.result = "not_found"]
              ELSE [Blank EXCEPT !.op = "initialize", !.user = u,
                                 !.recs0 = users[u].recommendations,
                                 !.logs0 = Logs(users[u]),
                                 !.result = IF HasRecommendations(users[u])
                                            THEN "already" ELSE "none"]]
  /\ pc' = [pc EXCEPT ![p] = IF u \in Users /\ ~HasRecommendations(users[u])
                             THEN "i_gen" ELSE "done"]
  /\ nreq' = nreq + 1
  /\ UNCHANGED <<users, gen>>

\* the preferences, or the default ones, go to generate_cold_start_recommendations with
\* n_recommendations = 20; the list is stored and new_initialization is True
InitializeStore(p) ==
  /\ pc[p] = "i_gen"
  /\ LET stored == users[req[p].user].preferences
         user_preferences == IF stored = <<>> THEN DEFAULT_PREFERENCES ELSE stored
     IN \E out \in generate_cold_start_recommendations(user_preferences, 20) :
          /\ users' = SetRecommendations(users, req[p].user, out.recommendations)
          /\ req' = [req EXCEPT ![p].recommendations = out.recommendations,
                                ![p].phase = "cold_start",
                                ![p].result = "initialized"]
  /\ pc' = [pc EXCEPT ![p] = "done"]
  /\ UNCHANGED <<nreq, gen>>

\* a read of combined or the update raises: the except branch answers success False
InitializeFail(p) ==
  /\ pc[p] = "i_gen"
  /\ req' = [req EXCEPT ![p].result = "failure"]
  /\ pc' = [pc EXCEPT ![p] = "done"]
  /\ UNCHANGED <<users, nreq, gen>>

Finish ==
  /\ \A p \in Procs : pc[p] \in Ended
  /\ \E p \in Procs : pc[p] # "idle"
  /\ pc' = [p \in Procs |-> "idle"]
  /\ req' = [p \in Procs |-> Blank]
  /\ UNCHANGED <<users, nreq, gen>>

\* a request arrives: one of the three routes, or update_user_recommendations for an
\* item of the catalog under its own type
Start(p) ==
  \/ \E op \in RouteOps, u \in Users, i \in Items : RouteLog(p, op, u, i)
  \/ \E u \in Users, kind \in Kinds, i \in Items :
       UpdateRead(p, u, kind, i, Catalog[i].type)

Next ==
  \E p \in Procs :
    \/ Start(p)
    \/ Count(p)
    \/ ColdStart(p)
    \/ ReadVector(p)
    \/ InitVector(p)
    \/ Hybrid(p)
    \/ Store(p)
    \/ UpdateInit(p)
    \/ UpdateSave(p)
    \/ UpdateRecs(p)
    \/ Abandon(p)
    \/ Finish

\* requests overlap freely: nothing in the routes or in update_user_recommendations
\* takes a lock
Spec == Init /\ [][Next]_vars

\* update_user_recommendations called again and again, each call after the last has
\* returned, as the validation script does
\* the values of n_recommendations the sequential calls pass: one, and the default
UpdateCounts == {1, N_RECOMMENDATIONS}

NextSeq ==
  \E p \in Procs :
    \/ /\ Quiet(p)
       /\ \E u \in Users, kind \in Kinds, i \in Items \cup UnknownItems,
             item_type \in ItemTypes, n \in UpdateCounts :
            UpdateReadN(p, u, kind, i, item_type, n)
    \/ UpdateInit(p)
    \/ UpdateSave(p)
    \/ UpdateRecs(p)
    \/ Finish

SpecSeq == Init /\ [][NextSeq]_vars

\* the other requests have been answered
Settled(p) == \A q \in Procs \ {p} : pc[q] \in Ended

\* one request after another, the answer of the one before still at hand: the three
\* routes that log, the three that remove, and initialize_user_recommendations
NextUndo ==
  \E p \in Procs :
    \/ /\ Settled(p)
       /\ \/ \E op \in RouteOps, u \in Users, i \in Events : RouteLog(p, op, u, i)
          \/ \E op \in UndoOps, u \in Users \cup UnknownUsers, i \in Events :
               RouteUnlog(p, op, u, i)
          \/ \E u \in Users \cup UnknownUsers : InitializeRead(p, u)
    \/ Count(p)
    \/ ColdStart(p)
    \/ ReadVector(p)
    \/ InitVector(p)
    \/ Hybrid(p)
    \/ Store(p)
    \/ InitializeStore(p)
    \/ InitializeFail(p)
    \/ Finish

SpecUndo == Init /\ [][NextUndo]_vars

\* the item ids sent in the requests of SpecErr: one of the catalogue, one of no document
ErrItems == {"e2"} \cup UnknownItems

\* one request at a time, any of the four routes or update_user_recommendations, with
\* ids that no document carries and with failures of the backend
NextErr ==
  \E p \in Procs :
    \/ /\ Quiet(p)
       /\ \/ \E op \in RouteOps, u \in Users, i \in ErrItems : RouteLog(p, op, u, i)
          \/ \E u \in Users, i \in ErrItems : InteractLog(p, u, i, "tap")
          \/ \E op \in RouteOps, u \in UnknownUsers : RouteNotFound(p, op, u, "e2")
          \/ \E u \in Users : UpdateRead(p, u, "like", "e2", "event")
    \/ Count(p)
    \/ ColdStart(p)
    \/ ReadVector(p)
    \/ InitVector(p)
    \/ Hybrid(p)
    \/ Store(p)
    \/ RouteFail(p)
    \/ StoreThenFail(p)
    \/ UpdateInit(p)
    \/ UpdateSave(p)
    \/ UpdateSaveLost(p)
    \/ UpdateRecs(p)
    \/ UpdateFail(p)
    \/ Finish

SpecErr == Init /\ [][NextErr]_vars

(***************************************************************************)
(* generate_unified_recommendations called directly, for any stored user.  *)
(***************************************************************************)
\* the logs, preferences and embeddings a stored user is drawn from
LogValues == {Take(CatalogOrder, k) : k \in 0..3}
PreferenceValues ==
  {<<>>, <<"cultura">>, <<"cultura", "museos">>, <<"trekking">>, <<"trekking", "cultura">>}
EmbeddingValues == {NoVec, <<VecScale, 0>>}
VectorValues == {NoVec, <<0, VecScale>>}

InitGen ==
  /\ \E likes \in LogValues, saves \in LogValues, visits \in LogValues,
        preferences \in PreferenceValues, embedding \in EmbeddingValues,
        vector \in VectorValues :
       users = [u \in Users |->
                  IF u = "u1"
                  THEN [NewUser(preferences) EXCEPT
                          !.likes = likes, !.saves = saves, !.visits = visits,
                          !.embedding = embedding, !.vector = vector]
                  ELSE NewUser(<<>>)]
  /\ pc = [p \in Procs |-> "idle"]
  /\ req = [p \in Procs |-> Blank]
  /\ nreq = 0
  /\ gen = NoCall

\* generate_unified_recommendations(user_id, n), cold start branch
GenerateCold(u, n) ==
  /\ gen = NoCall
  /\ is_cold_start_user(users[u])
  /\ \E out \in generate_cold_start_recommendations(users[u].preferences, n) :
       gen' = [user |-> u, n |-> n, count |-> get_user_interaction_count(users[u]),
               phase |-> "cold_start", calls |-> {"cold_start"},
               pref_calls |-> out.pref_calls, found |-> out.found,
               n_diverse_items |-> out.n_diverse_items,
               content_scores |-> <<>>, cf_scores |-> <<>>,
               recommendations |-> out.recommendations]
  /\ UNCHANGED <<users, pc, req, nreq>>

\* generate_unified_recommendations(user_id, n), hybrid branch; get_user_vector
\* initialises the embedding of a user who has none
GenerateHybrid(u, n) ==
  /\ gen = NoCall
  /\ ~is_cold_start_user(users[u])
  /\ \E user_vec \in IF users[u].embedding = NoVec
                     THEN InitialVectors ELSE {users[u].embedding} :
       /\ users' = IF users[u].embedding = NoVec
                   THEN SetEmbedding(users, u, user_vec) ELSE users
       /\ \E out \in HybridOutcomes(user_vec, users[u], n) :
            gen' = [user |-> u, n |-> n, count |-> get_user_interaction_count(users[u]),
                    phase |-> "hybrid", calls |-> {"content", "collaborative"},
                    pref_calls |-> <<>>, found |-> <<>>, n_diverse_items |-> 0,
                    content_scores |-> out.content_scores,
                    cf_scores |-> out.cf_scores,
                    recommendations |-> out.recommendations]
  /\ UNCHANGED <<pc, req, nreq>>

NextGen ==
  \E u \in Users, n \in 0..MaxN :
    \/ GenerateCold(u, n)
    \/ GenerateHybrid(u, n)

SpecGen == InitGen /\ [][NextGen]_vars

(***************************************************************************)
(* Direct calls of the functions of cf_aux.py on a users collection in its *)
(* own format, and of the hybrid blend of unified_recommender over it.     *)
(***************************************************************************)
CfUsers == {"u1", "u2", "u3"}

\* a stored `vector` that is neither of the two event vectors: (0.6, 0.8)
Oblique == <<(3 * VecScale) \div 5, (4 * VecScale) \div 5>>

\* min_similarity of the calls: the default 0.0, and 0.8
MinSimilarities == {0, (4 * VecScale * VecScale) \div 5}

CfDocs(u) ==
  CASE u = "u1" ->
         {[NewUser(<<>>) EXCEPT !.likes = likes, !.saves = saves, !.visits = visits,
                                !.vector = vector, !.seen = seen,
                                !.embedding = <<VecScale, 0>>] :
            likes \in {<<>>, <<"e1">>, <<"p1">>, <<"x9">>, <<"e2", "e1">>, <<"e1", "e2">>},
            saves \in {<<>>, <<"e1">>, <<"e2", "e1">>},
            visits \in {<<>>, <<"e2">>},
            vector \in {NoVec, <<VecScale, 0>>, Oblique},
            seen \in {<<>>, <<"e1">>}}
    [] u = "u2" ->
         {[NewUser(<<>>) EXCEPT !.likes = likes, !.saves = saves, !.vector = vector] :
            likes \in {<<>>, <<"e1">>, <<"e2", "e1">>},
            saves \in {<<>>, <<"e2">>},
            vector \in {NoVec, <<VecScale, 0>>, <<0 - VecScale, 0>>}}
    [] OTHER ->
         {[NewUser(<<>>) EXCEPT !.likes = likes, !.vector = vector] :
            likes \in {<<"e1">>, <<"e2">>},
            vector \in {NoVec, Oblique}}

\* a call not made yet
NoCfCall ==
  [op |-> "none", user |-> "none", n |-> 0, min_similarity |-> 0, raised |-> FALSE,
   nan |-> FALSE, no_vector |-> FALSE, vector |-> NoVec, similar_users |-> <<>>,
   excluded |-> {}, collaborative |-> <<>>, content |-> <<>>, cf_recs |-> <<>>,
   content_recs |-> <<>>, cf_results |-> <<>>, content_scores |-> <<>>,
   cf_scores |-> <<>>, recommendations |-> <<>>]

InitCf ==
  /\ \E d1 \in CfDocs("u1"), d2 \in CfDocs("u2"), d3 \in CfDocs("u3") :
       users = [u \in CfUsers |-> CASE u = "u1" -> d1 [] u = "u2" -> d2 [] OTHER -> d3]
  /\ pc = [p \in Procs |-> "idle"]
  /\ req = [p \in Procs |-> Blank]
  /\ nreq = 0
  /\ gen = NoCfCall

\* get_collaborative_recommendations(user_id, n, min_similarity=min_similarity)
CallCollaborative(u, n, min_similarity) ==
  /\ gen = NoCfCall
  /\ \E out \in get_collaborative_recommendations(users, u, n, min_similarity) :
       gen' = [NoCfCall EXCEPT !.op = "collaborative", !.user = u, !.n = n,
                               !.min_similarity = min_similarity,
                               !.raised = out.raised, !.no_vector = out.no_vector,
                               !.similar_users = out.similar_users,
                               !.excluded = out.excluded,
                               !.recommendations = out.recommendations]
  /\ UNCHANGED <<users, pc, req, nreq>>

\* get_full_recalc_user_vector(user_id)
CallRecalc(u) ==
  /\ gen = NoCfCall
  /\ LET out == get_full_recalc_user_vector(users, u)
     IN gen' = [NoCfCall EXCEPT !.op = "recalc", !.user = u, !.raised = out.raised,
                                !.nan = out.nan, !.vector = out.vector]
  /\ UNCHANGED <<users, pc, req, nreq>>

\* _get_hybrid_recommendations(user_id, users_collection, n) for a user with a stored
\* embedding: the content scores by position, the scores of hybrid_recommendations
\* (any exception there gives {}), and their blend
CallBlend(u, n) ==
  /\ gen = NoCfCall
  /\ ~is_cold_start_user(users[u])
  /\ \E o \in SearchOutcomes(users[u].embedding, n * 2),
        out \in hybrid_recommendations(users, u, n * 2, HYBRID_WEIGHT_COLLABORATIVE,
                                       HYBRID_WEIGHT_CONTENT) :
       LET cf_scores == IF out.raised THEN <<>> ELSE CfScores(out.results)
       IN gen' = [NoCfCall EXCEPT
                    !.op = "blend", !.user = u, !.n = n,
                    !.raised = out.raised,
                    !.no_vector = out.collaborative.no_vector,
                    !.similar_users = out.collaborative.similar_users,
                    !.collaborative = out.collaborative.recommendations,
                    !.content = out.content,
                    !.cf_recs = out.cf_recs,
                    !.content_recs = out.content_recs,
                    !.cf_results = out.results,
                    !.content_scores = ContentScores(o.ids),
                    !.cf_scores = cf_scores,
                    !.recommendations =
                       _combine_recommendations(ContentScores(o.ids), cf_scores, n)]
  /\ UNCHANGED <<users, pc, req, nreq>>

NextCf ==
  \/ \E u \in CfUsers \cup UnknownUsers, n \in 0..MaxN, min_similarity \in MinSimilarities :
       CallCollaborative(u, n, min_similarity)
  \/ \E u \in CfUsers \cup UnknownUsers : CallRecalc(u)
  \/ \E u \in CfUsers, n \in 0..MaxN : CallBlend(u, n)

SpecCf == InitCf /\ [][NextCf]_vars

(***************************************************************************)
(* cf_aux.py: the fetch loop of get_top_similar_events, one batch per step. *)
(***************************************************************************)
MAX_FETCH_MULTIPLIER == 5

\* the documents of the index vector_index_events
IndexedIds == {i \in Items : Catalog[i].vector # NoVec}

\* what one aggregate of the loop can answer: up to `limit` documents of the index, in
\* any order
IndexResponses(limit) == {Take(o, k) : o \in Orderings(IndexedIds), k \in 0..limit}

\* mutant: the batch is not capped by what is left of max_fetch
BatchSizeUncapped(n, results, max_fetch, current_fetch) == (n - Len(results)) * 2

\* remaining = n - len(results); batch_size = min(remaining * 2, max_fetch - current_fetch)
BatchSize(n, results, max_fetch, current_fetch) ==
  LET remaining == n - Len(results)
  IN IF remaining * 2 <= max_fetch - current_fetch
     THEN remaining * 2 ELSE max_fetch - current_fetch

\* the for loop over one response: documents already processed or excluded are skipped,
\* the others appended with their cosine similarity until there are n results
RECURSIVE Consume(_, _, _, _, _, _)
Consume(results, processed_ids, docs, exclude_event_ids, n, vector) ==
  IF docs = <<>> THEN results
  ELSE LET event_id == Head(docs)
       IN IF event_id \in processed_ids
          THEN Consume(results, processed_ids, Tail(docs), exclude_event_ids, n, vector)
          ELSE IF event_id \in exclude_event_ids
          THEN Consume(results, processed_ids \cup {event_id}, Tail(docs),
                       exclude_event_ids, n, vector)
          ELSE LET appended == Append(results,
                                      <<event_id, Cosine(vector, Catalog[event_id].vector)>>)
               IN IF Len(appended) >= n THEN appended
                  ELSE Consume(appended, processed_ids \cup {event_id}, Tail(docs),
                               exclude_event_ids, n, vector)

NoTopCall ==
  [op |-> "none", user |-> "none", n |-> 0, vector |-> NoVec, exclude_event_ids |-> {},
   max_fetch |-> 0, results |-> <<>>, current_fetch |-> 0, batches |-> 0,
   state |-> "idle"]

\* the seen lists of the stored user
SeenValues == {<<>>, <<"e1">>, <<"e1", "e2">>}

InitTop ==
  /\ \E seen \in SeenValues :
       users = [u \in Users |->
                  [NewUser(<<>>) EXCEPT !.seen = IF u = "u1" THEN seen ELSE <<>>]]
  /\ pc = [p \in Procs |-> "idle"]
  /\ req = [p \in Procs |-> Blank]
  /\ nreq = 0
  /\ gen = NoTopCall

\* the call: the seen ids of the user are read, max_fetch is set
TopCall(u, n, vector) ==
  /\ gen.state = "idle"
  /\ nreq < MaxRequests
  /\ gen' = [NoTopCall EXCEPT !.op = "events", !.user = u, !.n = n, !.vector = vector,
                              !.exclude_event_ids = Range(get_user_seen_event_ids(users, u)),
                              !.max_fetch = n * MAX_FETCH_MULTIPLIER,
                              !.state = "loop"]
  /\ nreq' = nreq + 1
  /\ UNCHANGED <<users, pc, req>>

\* while len(results) < n and current_fetch < max_fetch
LoopCondition == Len(gen.results) < gen.n /\ gen.current_fetch < gen.max_fetch

\* one turn of the loop: a batch is asked of the index and consumed
TopBatch ==
  /\ gen.state = "loop"
  /\ LoopCondition
  /\ LET batch_size == BatchSize(gen.n, gen.results, gen.max_fetch, gen.current_fetch)
     IN \E docs \in IndexResponses(batch_size) :
          gen' = [gen EXCEPT !.results = Consume(gen.results,
                                                 {r[1] : r \in Range(gen.results)}, docs,
                                                 gen.exclude_event_ids, gen.n, gen.vector),
                             !.current_fetch = @ + batch_size,
                             !.batches = @ + 1,
                             !.state = IF batch_size = 0 THEN "break" ELSE "loop"]
  /\ UNCHANGED <<users, pc, req, nreq>>

\* the aggregate raises: nothing in the function catches it
TopRaise ==
  /\ gen.state = "loop"
  /\ LoopCondition
  /\ gen' = [gen EXCEPT !.state = "raised"]
  /\ UNCHANGED <<users, pc, req, nreq>>

\* the loop is left and results returned
TopReturn ==
  /\ \/ gen.state = "loop" /\ ~LoopCondition
     \/ gen.state = "break"
  /\ gen' = [gen EXCEPT !.state = "returned"]
  /\ UNCHANGED <<users, pc, req, nreq>>

\* the caller has its answer
TopDone ==
  /\ gen.state \in {"returned", "raised"}
  /\ gen' = NoTopCall
  /\ UNCHANGED <<users, pc, req, nreq>>

NextTop ==
  \/ \E u \in Users \cup UnknownUsers, n \in 0..MaxN, vector \in {<<VecScale, 0>>, Oblique} :
       TopCall(u, n, vector)
  \/ TopBatch
  \/ TopRaise
  \/ TopReturn
  \/ TopDone

\* the call runs in the thread of its caller: a step that can be taken is taken
SpecTop ==
  InitTop /\ [][NextTop]_vars /\ WF_vars(TopBatch \/ TopRaise) /\ WF_vars(TopReturn)

(***************************************************************************)
(* Properties.                                                             *)
(***************************************************************************)
\* likes + saves + visits as stored, counted without the model of the recommender
StoredInteractions(u) ==
  Len(users[u].likes) + Len(users[u].saves) + Len(users[u].visits)

\* C1: a user with fewer than 5 recorded interactions (likes + saves + visits) is
\* served by the cold-start generator alone, and a user with 5 or more by the
\* content and collaborative generators and never by the cold-start one.
ColdStartAloneBelowFive ==
  gen # NoCall =>
    /\ (StoredInteractions(gen.user) < 5) <=> (gen.calls = {"cold_start"})
    /\ (StoredInteractions(gen.user) >= 5) <=> (gen.calls = {"content", "collaborative"})

\* a user with exactly 5 interactions has been served by the hybrid generators
HybridAtFive ==
  /\ gen # NoCall
  /\ StoredInteractions(gen.user) = 5
  /\ gen.calls = {"content", "collaborative"}

\* C2: whatever the phase, the list generate_unified_recommendations returns has at
\* most n entries and no id twice.
OutputBoundedNoDuplicates ==
  gen # NoCall =>
    /\ Len(gen.recommendations) <= gen.n
    /\ IsInjective(gen.recommendations)

\* a cold-start call for two preferences that match the same event returned a full
\* list of 2
ColdStartFullList ==
  /\ gen.phase = "cold_start"
  /\ gen.pref_calls = <<"cultura", "museos">>
  /\ gen.n = 2
  /\ Len(gen.recommendations) = 2

\* C3: every id of a hybrid result comes from the content result or from the
\* collaborative result of that call.
HybridOutputFromItsSources ==
  gen.phase = "hybrid" =>
    Range(gen.recommendations)
      \subseteq Range(Keys(gen.content_scores)) \cup Range(Keys(gen.cf_scores))

\* a hybrid call returned an id only the collaborative side gave next to one the
\* content side gave
HybridFromBothSources ==
  /\ gen.phase = "hybrid"
  /\ "p1" \in Range(gen.recommendations) \ Range(Keys(gen.content_scores))
  /\ Range(gen.recommendations) \cap Range(Keys(gen.content_scores)) # {}

\* the vectors get_user_vector can have handed a call that found `embedding` stored
Bases(embedding) == IF embedding = NoVec THEN InitialVectors ELSE {embedding}

\* the embeddings left by the call of p run alone and then the call of q run alone,
\* with the item vectors the two calls used
SerialResults(p, q) ==
  {update_user_vector(update_user_vector(b, req[p].item_vec, req[p].kind),
                      req[q].item_vec, req[q].kind) : b \in Bases(req[p].emb0)}

\* C4: when two like interactions for the same user have both completed, the stored
\* embedding is the one some serial order of the two updates gives.
ConcurrentLikesBothApplied ==
  \A p \in Procs, q \in Procs :
    ( /\ p # q
      /\ pc[p] = "done" /\ pc[q] = "done"
      /\ req[p].op = "update" /\ req[q].op = "update"
      /\ req[p].user = req[q].user
      /\ req[p].kind = "like" /\ req[q].kind = "like"
      /\ req[p].item # req[q].item )
    => users[req[p].user].embedding \in SerialResults(p, q) \cup SerialResults(q, p)

\* C5: the stored recommendations of a user only ever change to the complete list
\* one request for that user has computed; requests may overlap or be abandoned.
RecommendationsReplacedWhole ==
  [][\A u \in Users :
       users'[u].recommendations # users[u].recommendations =>
         \E p \in Procs :
           /\ pc[p] \in {"generated", "u_recs"}
           /\ req[p].user = u
           /\ users'[u].recommendations = req[p].recommendations]_vars

\* a request replaced the list of a user while another request for the same user
\* had been abandoned after its first write
ReplacedBesideAbandoned ==
  \E p \in Procs, q \in Procs :
    /\ p # q
    /\ pc[p] = "done"
    /\ pc[q] = "abandoned"
    /\ req[p].user = req[q].user
    /\ req[q].op \in RouteOps
    /\ req[p].recommendations # <<>>
    /\ users[req[p].user].recommendations = req[p].recommendations

\* the request that takes a step, and the user it is for
Steps(p) == pc'[p] # pc[p] \/ req'[p] # req[p]
UserOf(p) == IF pc[p] = "idle" THEN req'[p].user ELSE req[p].user

\* C6: a step of a request for one user leaves every stored field of every other
\* user as it was.
OtherUsersUnchanged ==
  [][\A b \in Users :
       users'[b] # users[b] => \E p \in Procs : Steps(p) /\ UserOf(p) = b]_vars

\* both users have had their embedding and their recommendations written
BothUsersWritten ==
  /\ \A u \in Users : users[u].embedding # NoVec /\ users[u].recommendations # <<>>
  /\ users["u1"].embedding # users["u2"].embedding

\* C7: a like through the likes route by a user who is in the hybrid phase leaves
\* the stored embedding updated with the liked item (norm 1) and the stored
\* recommendations replaced by the new list.
LikeUpdatesEmbedding ==
  \A p \in Procs :
    (pc[p] = "done" /\ req[p].op = "likes" /\ req[p].phase = "hybrid" /\ Quiet(p))
    => /\ users[req[p].user].embedding
            \in {update_user_vector(b, item_vec, "like") :
                   b \in Bases(req[p].emb0),
                   item_vec \in ItemVectors(req[p].item, Catalog[req[p].item].type,
                                            req[p].emb0)}
       /\ HasUnitNorm(users[req[p].user].embedding)
       /\ users[req[p].user].recommendations = req[p].recommendations

\* C8: when update_user_recommendations has returned success, the stored embedding
\* is the updated vector and the stored recommendations are the ids it returns.
UpdateStoresWhatItReturns ==
  \A p \in Procs :
    (pc[p] = "done" /\ req[p].op = "update" /\ req[p].result = "success")
    => /\ users[req[p].user].embedding = req[p].new_user_vec
       /\ users[req[p].user].recommendations = req[p].recommendations

\* a call has returned success after moving the embedding of a user who had one
UpdateMovedEmbedding ==
  \E p \in Procs :
    /\ pc[p] = "done" /\ req[p].op = "update" /\ req[p].result = "success"
    /\ req[p].emb0 # NoVec
    /\ req[p].new_user_vec # req[p].emb0
    /\ req[p].recommendations # <<>>

\* C9: a cold-start call for a user who has stored no preferences hands the
\* generator the default preference set.
ColdStartUsesDefaultPreferences ==
  (gen.phase = "cold_start" /\ users[gen.user].preferences = <<>>)
  => gen.pref_calls = DEFAULT_PREFERENCES

\* C10: an interaction of a kind that is not in the weight table is applied with
\* weight 0.1 (1 tenth), and the call is not rejected.
UnknownKindWeighsOneTenth ==
  \A p \in Procs :
    (req[p].op = "update" /\ req[p].kind \notin DOMAIN INTERACTION_WEIGHTS)
    => /\ pc[p] \in {"u_recs", "done"} =>
            /\ req[p].weight = 1
            /\ req[p].new_user_vec
                 = Normalize(EmaRaw(req[p].user_vec, req[p].item_vec, 1))
       /\ pc[p] = "done" => req[p].result = "success"

\* a call with the kind "tap" has returned success and moved the embedding
UnknownKindApplied ==
  \E p \in Procs :
    /\ pc[p] = "done" /\ req[p].kind = "tap" /\ req[p].result = "success"
    /\ req[p].new_user_vec # req[p].user_vec

\* C11: when the item of an interaction has no embedding (a document without a
\* vector, or no document at all), whatever kind the caller names, the update goes
\* on with a substitute vector (a random unit vector for a place, the user's own
\* vector otherwise), the embedding computed and stored has norm 1, and the call
\* returns success.
NoEmbeddingItemStillUpdates ==
  \A p \in Procs :
    (req[p].op = "update" /\ get_item_embedding(req[p].item) = NoVec)
    => /\ pc[p] \in {"u_recs", "done"} =>
            /\ req[p].item_vec \in
                 (IF req[p].item_type = "place" THEN RandomUnitVectors
                                               ELSE {req[p].user_vec})
            /\ HasUnitNorm(req[p].item_vec)
            /\ HasUnitNorm(req[p].new_user_vec)
            /\ HasUnitNorm(users[req[p].user].embedding)
       /\ pc[p] = "done" => req[p].result = "success"

\* an interaction with an item of no document, named an event, has gone through for
\* a user who had no embedding before
NoEmbeddingItemUpdated ==
  \E p \in Procs :
    /\ pc[p] = "done" /\ req[p].op = "update" /\ req[p].result = "success"
    /\ req[p].item \in UnknownItems /\ req[p].item_type = "event"
    /\ req[p].emb0 = NoVec
    /\ HasUnitNorm(users[req[p].user].embedding)

\* the ops of the four interaction routes
InteractionOps == RouteOps \cup {"interact"}

\* C12: a request during which the vector search failed still ends with a non-empty
\* recommendations list stored for its user.
SearchFailureStillRecommends ==
  \A p \in Procs :
    (pc[p] = "done" /\ req[p].op \in InteractionOps /\ req[p].search = "failed")
    => users[req[p].user].recommendations # <<>>

\* the interaction of request r is in the log its route writes
Recorded(r) ==
  CASE r.op = "likes"    -> r.item \in Range(users[r.user].likes)
    [] r.op = "saves"    -> r.item \in Range(users[r.user].saves)
    [] r.op = "visits"   -> r.item \in Range(users[r.user].visits)
    [] r.op = "interact" -> <<r.item, r.kind>> \in Range(users[r.user].interactions)
    [] OTHER             -> FALSE

UnknownIdRejected ==
  \A p \in Procs :
    (pc[p] # "idle" /\ (req[p].user \in UnknownUsers \/ req[p].item \in UnknownItems))
    => /\ pc[p] = "done"
       /\ req[p].result = "not_found"
       /\ req[p].phase = "none"
       /\ \A u \in Users :
            (Range(users[u].likes) \cup Range(users[u].saves) \cup Range(users[u].visits))
              \cap UnknownItems = {}

\* C15: when the collaborative filter finds no similar user it returns the empty
\* list, and the blend made with that call is the content-based ranking in its
\* order, cut to n.
ZeroNeighboursContentOnly ==
  /\ (gen.op = "collaborative" /\ ~gen.raised /\ gen.similar_users = <<>>)
     => gen.recommendations = <<>>
  /\ (gen.op = "blend" /\ ~gen.raised /\ ~gen.no_vector /\ gen.similar_users = <<>>)
     => /\ gen.collaborative = <<>>
        /\ gen.recommendations = Take(Keys(gen.content_scores), gen.n)

\* the items of the three logs of a user
Interacted(u) ==
  Range(users[u].likes) \cup Range(users[u].saves) \cup Range(users[u].visits)

\* C16: no item of the querying user's likes, saves or visits is in the output of
\* get_collaborative_recommendations.
NoInteractedItemRecommended ==
  (gen.op = "collaborative" /\ ~gen.raised /\ gen.user \in CfUsers)
  => \A k \in DOMAIN gen.recommendations :
       gen.recommendations[k][1] \notin Interacted(gen.user)

\* how many entries of a log name the item
Occurrences(log, item) == Cardinality({k \in DOMAIN log : log[k] = item})

\* what user u adds to the score of an item for a query vector: nothing when u has
\* no stored vector or is less similar than min_similarity, else similarity times
\* 1.0 per like, 2.0 per save and 0.5 per visit (in halves: 2, 4, 1)
NeighbourScore(query, u, item, min_similarity) ==
  IF users[u].vector = NoVec THEN 0
  ELSE IF Dot(query, users[u].vector) < min_similarity THEN 0
       ELSE Dot(query, users[u].vector)
              * (2 * Occurrences(users[u].likes, item)
                 + 4 * Occurrences(users[u].saves, item)
                 + Occurrences(users[u].visits, item))

\* C17: each score get_collaborative_recommendations returns is the sum, over the
\* users whose similarity is at least min_similarity and over their like, save and
\* visit entries of the item, of similarity x weight (like 1.0, save 2.0, visit 0.5);
\* a user below min_similarity adds nothing.
ScoreIsWeightedSum ==
  (gen.op = "collaborative" /\ ~gen.raised /\ gen.recommendations # <<>>)
  => LET query == calculate_user_vector(users, gen.user).vector
     IN \A k \in DOMAIN gen.recommendations :
          gen.recommendations[k][2]
            = NeighbourScore(query, "u1", gen.recommendations[k][1], gen.min_similarity)
              + NeighbourScore(query, "u2", gen.recommendations[k][1], gen.min_similarity)
              + NeighbourScore(query, "u3", gen.recommendations[k][1], gen.min_similarity)

\* a call with min_similarity 0.8 has scored an item from two similar users while a
\* third user with a stored vector stayed below the threshold
ScoredFromTwoNeighbours ==
  /\ gen.op = "collaborative" /\ ~gen.raised
  /\ gen.min_similarity > 0
  /\ Len(gen.similar_users) = 2
  /\ \A u \in CfUsers : users[u].vector # NoVec
  /\ \E k \in DOMAIN gen.recommendations :
       \A j \in DOMAIN gen.similar_users :
         gen.recommendations[k][1] \in Interacted(gen.similar_users[j][1])

\* the event ids of the similar users' logs, in the order the loops visit them
RECURSIVE Visited(_)
Visited(similar_users) ==
  IF similar_users = <<>> THEN <<>>
  ELSE Keys(Entries(users[Head(similar_users)[1]])) \o Visited(Tail(similar_users))

\* the position of the first occurrence of x in s
FirstIndex(s, x) == CHOOSE k \in DOMAIN s : s[k] = x /\ \A j \in 1..(k - 1) : s[j] # x

\* C18: get_collaborative_recommendations returns at most n pairs, in non-increasing
\* score order, and items of equal score in the order in which each first received
\* a score.
SortedStableTruncated ==
  (gen.op = "collaborative" /\ ~gen.raised)
  => /\ Len(gen.recommendations) <= gen.n
     /\ \A k, l \in DOMAIN gen.recommendations :
          k < l =>
            /\ gen.recommendations[k][2] >= gen.recommendations[l][2]
            /\ gen.recommendations[k][2] = gen.recommendations[l][2]
               => FirstIndex(Visited(gen.similar_users), gen.recommendations[k][1])
                    < FirstIndex(Visited(gen.similar_users), gen.recommendations[l][1])

\* a call has returned two items of equal score, e2 (scored first) before e1
TieKeptInOrder ==
  /\ gen.op = "collaborative" /\ ~gen.raised
  /\ Len(gen.recommendations) = 2
  /\ gen.recommendations[1][2] = gen.recommendations[2][2]
  /\ gen.recommendations[1][1] = "e2"

\* C19: for a user whose three logs are empty and who has no stored vector, the
\* full recomputation yields no vector and get_collaborative_recommendations
\* returns the empty list; neither raises.
NoHistoryNoVector ==
  (gen.user \in CfUsers /\ Interacted(gen.user) = {} /\ users[gen.user].vector = NoVec)
  => /\ gen.op = "recalc" => (~gen.raised /\ ~gen.nan /\ gen.vector = NoVec)
     /\ gen.op = "collaborative" => (~gen.raised /\ gen.recommendations = <<>>)

\* a user without history has asked for recommendations while another user holds a
\* vector and events
NoHistoryAsked ==
  /\ gen.op = "collaborative" /\ gen.user = "u2" /\ gen.n > 0
  /\ Interacted("u2") = {} /\ users["u2"].vector = NoVec
  /\ users["u1"].vector # NoVec /\ Interacted("u1") # {}

\* the vector built from the logged items of a user that hold a vector
VectorOfRemaining(u) ==
  IF WithVector(Entries(users[u])) = <<>> THEN NoVec
  ELSE Normalize(VectorSum(WithVector(Entries(users[u]))))

\* C20: when a logged item has no embedding, or no document, the full
\* recomputation skips it and yields the vector of the remaining logged items,
\* without an error.
RecalcSkipsItemWithoutVector ==
  (gen.op = "recalc" /\ gen.user \in CfUsers)
  => /\ ~gen.raised
     /\ ~gen.nan
     /\ gen.vector = VectorOfRemaining(gen.user)

\* the scores of a list of (id, score) pairs
Scores(recs) == {recs[k][2] : k \in DOMAIN recs}

\* norm is the min-max normalisation of raw, in thousandths: the ids are kept, a set
\* of equal scores becomes all 0, and otherwise the lowest score becomes 0, the
\* highest 1 and the order of the scores is kept
IsMinMaxOf(norm, raw) ==
  /\ Keys(norm) = Keys(raw)
  /\ IF Cardinality(Scores(raw)) = 1
     THEN Scores(norm) = {0}
     ELSE /\ \A k \in DOMAIN raw :
               /\ norm[k][2] \in 0..1000
               /\ (\A j \in DOMAIN raw : raw[k][2] <= raw[j][2]) => norm[k][2] = 0
               /\ (\A j \in DOMAIN raw : raw[k][2] >= raw[j][2]) => norm[k][2] = 1000
          /\ \A j, k \in DOMAIN raw : raw[j][2] <= raw[k][2] => norm[j][2] <= norm[k][2]

IsTopOf(ranked, ids, score(_), k) ==
  /\ IsInjective(ranked)
  /\ Range(ranked) \subseteq ids
  /\ Len(ranked) = IF k < Cardinality(ids) THEN k ELSE Cardinality(ids)
  /\ \A i, j \in DOMAIN ranked : i < j => score(ranked[i]) >= score(ranked[j])
  /\ \A i \in DOMAIN ranked : \A x \in ids \ Range(ranked) : score(ranked[i]) >= score(x)

\* C22: the combined score of every id of the union of the two id sets is 0.4 x its
\* normalised content score + 0.6 x its normalised collaborative score, an id absent
\* from a set getting 0 from it, and the output is the ids by non-increasing
\* combined score, cut to the count asked for; in get_hybrid_recommendations_cf as
\* called by the unified recommender, and in _combine_recommendations on score sets
\* that carry their weight already.
BlendIsWeightedSumRanked ==
  (gen.op = "blend" /\ ~gen.raised /\ ~gen.no_vector)
  => LET inner(id) == 6 * Get(gen.cf_recs, id, 0) + 4 * Get(gen.content_recs, id, 0)
         outer(id) == Get(gen.content_scores, id, 0) + Get(gen.cf_scores, id, 0)
     IN /\ \A k \in DOMAIN gen.cf_results :
             gen.cf_results[k][2] = inner(gen.cf_results[k][1])
        /\ IsTopOf(Keys(gen.cf_results),
                   Range(Keys(gen.cf_recs)) \cup Range(Keys(gen.content_recs)),
                   inner, gen.n * 2)
        /\ IsTopOf(gen.recommendations,
                   Range(Keys(gen.content_scores)) \cup Range(Keys(gen.cf_scores)),
                   outer, gen.n)

\* a blend in which an id has a content score only, another id has both scores, and
\* the list was cut
BlendOverUnionCut ==
  /\ gen.op = "blend" /\ ~gen.raised
  /\ \E id \in Range(Keys(gen.content_recs)) : id \notin Range(Keys(gen.cf_recs))
  /\ \E id \in Range(Keys(gen.content_recs)) : id \in Range(Keys(gen.cf_recs))
  /\ Len(gen.recommendations) = gen.n
  /\ Cardinality(Range(Keys(gen.content_scores)) \cup Range(Keys(gen.cf_scores))) > gen.n
  /\ gen.n > 0

\* C27: the querying user is never one of the similar users whose logs
\* get_collaborative_recommendations scores.
QueryingUserNotNeighbour ==
  (gen.op = "collaborative" /\ ~gen.raised)
  => \A k \in DOMAIN gen.similar_users : gen.similar_users[k][1] # gen.user

\* C28: whenever hybrid_recommendations returns a non-empty list,
\* _get_collaborative_recommendations returns one entry per id returned, the best
\* with exactly the collaborative weight 0.6 and all within [0, 0.6].
NonEmptyCollaborativeKept ==
  (gen.op = "blend" /\ ~gen.raised /\ gen.cf_results # <<>>)
  => /\ Keys(gen.cf_scores) = Keys(gen.cf_results)
     /\ gen.cf_scores[1][2] = (ScoreScale * HYBRID_WEIGHT_COLLABORATIVE) \div 10
     /\ \A k \in DOMAIN gen.cf_scores :
          gen.cf_scores[k][2] \in 0..((ScoreScale * HYBRID_WEIGHT_COLLABORATIVE) \div 10)

\* C23: a preference without an entry in PREFERENCE_MAPPINGS contributes no item
\* and no error; the preference step runs once per preference, and the diversity
\* step is asked for exactly n minus the number of items the preference step found.
ShortfallGoesToDiversity ==
  gen.phase = "cold_start"
  => /\ Len(gen.found) = Len(gen.pref_calls)
     /\ \A k \in DOMAIN gen.found :
          gen.pref_calls[k] \notin DOMAIN PREFERENCE_MAPPINGS => gen.found[k] = <<>>
     /\ gen.n_diverse_items = gen.n - Len(Extended(gen.found))
     /\ gen.recommendations # <<>> \/ gen.n = 0

\* a cold start for one mapped preference that found an item and one preference
\* without mapping
UnmappedBesideMapped ==
  /\ gen.phase = "cold_start"
  /\ \E k \in DOMAIN gen.found : gen.pref_calls[k] \notin DOMAIN PREFERENCE_MAPPINGS
  /\ \E k \in DOMAIN gen.found : gen.found[k] # <<>>
  /\ gen.n_diverse_items > 0

Undone(p, q) ==
  /\ p # q /\ pc[p] = "done" /\ pc[q] = "done"
  /\ req[p].op \in RouteOps /\ req[q].op = UndoOf(req[p].op)
  /\ req[q].result = "removed"
  /\ req[q].user = req[p].user /\ req[q].item = req[p].item
  /\ req[p].item \notin Range(Logs(users[req[p].user])[LogOf(req[p].op)])

\* the step of an unlike, unsave or unvisit for a stored user takes the item out of the
\* matching log and changes nothing else of any document
RemovalStep ==
  \A p \in Procs :
    (pc[p] = "idle" /\ pc'[p] = "done" /\ req'[p].op \in UndoOps /\ req'[p].user \in Users)
      => LET u == req'[p].user
             i == req'[p].item
             f == LogOf(req'[p].op)
         IN /\ i \notin Range(Logs(users'[u])[f])
            /\ Logs(users'[u])[f] = SelectSeq(Logs(users[u])[f], LAMBDA x : x # i)
            /\ \A g \in {"likes", "saves", "visits"} \ {f} :
                 Logs(users'[u])[g] = Logs(users[u])[g]
            /\ users'[u].recommendations = users[u].recommendations
            /\ users'[u].embedding = users[u].embedding
            /\ \A v \in Users \ {u} : users'[v] = users[v]

\* C25 as stated: a like, save or visit followed by the matching removal leaves the
\* three logs, and with them the interaction count, as they were before the like
LikeThenUnlikeRestores ==
  \A p \in Procs, q \in Procs :
    Undone(p, q) => Logs(users[req[p].user]) = req[p].logs0

\* C25: an unlike, unsave or unvisit of item i takes i out of the matching log of the
\* user and leaves the other two logs unchanged; a like, save or visit of an item that
\* was not in the log, followed by the matching removal, restores the three logs and
\* the interaction count
RemovalUndoesFreshLike ==
  /\ [][RemovalStep]_vars
  /\ [](\A p \in Procs, q \in Procs :
          (Undone(p, q) /\ req[p].item \notin Range(req[p].logs0[LogOf(req[p].op)]))
            => /\ Logs(users[req[p].user]) = req[p].logs0
               /\ get_user_interaction_count(users[req[p].user])
                    = Len(req[p].logs0.likes) + Len(req[p].logs0.saves)
                      + Len(req[p].logs0.visits))

\* an item that was not in the log has been logged and removed again
FreshLikeUndone ==
  \E p \in Procs, q \in Procs :
    /\ Undone(p, q)
    /\ req[p].item \notin Range(req[p].logs0[LogOf(req[p].op)])
    /\ req[q].logs0 # req[p].logs0
    /\ Logs(users[req[p].user]) = req[p].logs0

\* a step of initialize_user_recommendations: a user with a stored list is answered
\* without a write, and the only write is the generated list over an empty one
InitializeStep ==
  \A p \in Procs :
    /\ (pc[p] = "idle" /\ pc'[p] = "done" /\ req'[p].op = "initialize")
         => /\ users' = users
            /\ req'[p].user \in Users
                 => /\ users[req'[p].user].recommendations # <<>>
                    /\ req'[p].result = "already"
    /\ (pc[p] = "idle" /\ pc'[p] = "i_gen")
         => users' = users /\ users[req'[p].user].recommendations = <<>>
    /\ (pc[p] = "i_gen" /\ pc'[p] = "done")
         => \/ req'[p].result = "failure" /\ users' = users
            \/ /\ req'[p].result = "initialized"
               /\ users[req[p].user].recommendations = <<>>
               /\ users' = [users EXCEPT ![req[p].user].recommendations =
                                             req'[p].recommendations]

\* C29: initialize_user_recommendations leaves a non-empty stored list unchanged and
\* reports new_initialization false, writes a list only over an empty or absent one,
\* and called twice in a row stores the list the first call stored
InitializeIsIdempotent ==
  /\ [][InitializeStep]_vars
  /\ [](\A p \in Procs, q \in Procs :
          (/\ p # q /\ pc[p] = "done" /\ pc[q] = "done"
           /\ req[p].op = "initialize" /\ req[q].op = "initialize"
           /\ req[p].user = req[q].user /\ req[p].result = "initialized")
            => /\ users[req[p].user].recommendations = req[p].recommendations
               /\ req[q].result \in {"already", "failure"}
               /\ req[q].result = "already" => req[q].recs0 = req[p].recommendations)

\* a second call has found the list the first call stored and left it
SecondInitializeLeftList ==
  \E p \in Procs, q \in Procs :
    /\ p # q /\ pc[p] = "done" /\ pc[q] = "done"
    /\ req[p].op = "initialize" /\ req[q].op = "initialize"
    /\ req[p].user = req[q].user
    /\ req[p].result = "initialized" /\ req[q].result = "already"
    /\ req[p].recommendations # <<>>
    /\ users[req[p].user].recommendations = req[p].recommendations

\* C26: get_top_similar_events terminates for every n >= 0 and every response of the
\* index, asks for no more than n * max_fetch_multiplier documents in total, and
\* returns at most n (id, similarity) pairs, no id twice and none of the seen list
TopEventsTerminatesWithinLimits ==
  /\ [](gen.op = "events"
          => /\ gen.current_fetch <= gen.n * MAX_FETCH_MULTIPLIER
             /\ Len(gen.results) <= gen.n
             /\ IsInjective([k \in DOMAIN gen.results |-> gen.results[k][1]])
             /\ \A k \in DOMAIN gen.results :
                  /\ gen.results[k][1]
                       \notin Range(get_user_seen_event_ids(users, gen.user))
                  /\ gen.results[k][2]
                       = Cosine(gen.vector, Catalog[gen.results[k][1]].vector))
  /\ (gen.state = "loop") ~> (gen.state \in {"returned", "raised"})

\* a call has returned a result after more than one batch, with a seen id skipped and
\* the whole of max_fetch asked for
TopReturnedAfterBatches ==
  /\ gen.state = "returned" /\ gen.batches >= 2
  /\ gen.results # <<>> /\ gen.exclude_event_ids # {}
  /\ gen.current_fetch = gen.n * MAX_FETCH_MULTIPLIER

\* C30: after two concurrent like, save or visit requests for the same user are both
\* answered, the stored list is one computed from a log with both interactions.  The
\* interaction count never falls, so of a request that counted fewer than 5 and one
\* that counted 5 or more the first read the log before the other's interaction was
\* in it, and the stored list has to be the one of the second.
NewerListSurvives ==
  \A p \in Procs, q \in Procs :
    (/\ p # q /\ pc[p] = "done" /\ pc[q] = "done"
     /\ req[p].op \in RouteOps /\ req[q].op \in RouteOps
     /\ req[p].user = req[q].user
     /\ req[p].result = "updated" /\ req[q].result = "updated"
     /\ req[p].phase = "cold_start" /\ req[q].phase = "hybrid")
      => users[req[q].user].recommendations = req[q].recommendations

=============================================================================
